---- MODULE Spec2Model ----
(***************************************************************************)
(* A model of the Energy Consumption Analyzer: the analysis engine         *)
(* (backend/ml_engine.py), the simple detector and loader                  *)
(* (backend/utils/data_loader.py) and the Flask API (server.py).           *)
(*                                                                         *)
(* Units.  Energy readings are integers (tenths of a kWh).  Real-valued    *)
(* columns are kept exact: a ratio is a record [num, den]; usage_variance  *)
(* is held times k(k-1) for the k interval columns (the same k for every   *)
(* row of a DataFrame); z_score is held as its square num/den.             *)
(* The scikit-learn estimators (IsolationForest, OneClassSVM, DBSCAN) are  *)
(* library code outside the repository: their per-row output is an input   *)
(* of the action that calls them.                                          *)
(***************************************************************************)
EXTENDS Integers, Sequences, FiniteSets, TLC

VARIABLES
    df,         \* the DataFrame a script holds (a sequence of rows; a row maps column names to values)
    stage,      \* the position of the script that holds df
    analyzer,   \* an EnergyConsumptionAnalyzer instance: scaler, models, feature_columns, anomaly_thresholds
    fs,         \* the data directory: the bed folders written so far
    year,       \* datetime.now().year
    call,       \* the last load_data call: its arguments and outcome
    threads     \* the request handler threads of the Flask server

vars == <<df, stage, analyzer, fs, year, call, threads>>

None == "None"

(***************************************************************************)
(* Bounds of the model.                                                    *)
(***************************************************************************)
\* the largest number of rooms (rows) of a dataset of the engine's pipeline
MaxRooms == 8
\* the largest number of rows the three library detectors flag, taken together
MaxFlaggedRows == 1

(***************************************************************************)
(* Generic helpers.                                                        *)
(***************************************************************************)
Range(s) == {s[i] : i \in DOMAIN s}

RECURSIVE SumSeq(_)
SumSeq(s) == IF s = <<>> THEN 0 ELSE Head(s) + SumSeq(Tail(s))

RECURSIVE SumOver(_, _)
SumOver(f, S) == IF S = {} THEN 0
                 ELSE LET x == CHOOSE y \in S : TRUE IN f[x] + SumOver(f, S \ {x})

MaxOf(S) == CHOOSE x \in S : \A y \in S : y <= x
MinOf(S) == CHOOSE x \in S : \A y \in S : x <= y

\* df[col] = value, row by row: a new column is added, an existing one overwritten
Assign(row, col, val) == [c \in (DOMAIN row) \cup {col} |-> IF c = col THEN val ELSE row[c]]

Column(d, col) == [i \in 1..Len(d) |-> d[i][col]]

\* the k-th smallest (k = 0, 1, ...) of a sequence of integers: sorted(vals)[k]
KthSmallest(vals, k) ==
    CHOOSE v \in Range(vals) :
        /\ Cardinality({i \in DOMAIN vals : vals[i] < v}) <= k
        /\ Cardinality({i \in DOMAIN vals : vals[i] <= v}) > k

\* q times Series.quantile(p/q) with pandas' default linear interpolation:
\* position (n-1)p/q, value x[lo] + frac * (x[lo+1] - x[lo])
QuantileTimes(vals, p, q) ==
    LET n   == Len(vals)
        pos == (n - 1) * p
        lo  == pos \div q
        r   == pos % q
        a   == KthSmallest(vals, lo)
    IN  IF r = 0 THEN q * a
        ELSE q * a + r * (KthSmallest(vals, lo + 1) - a)

(***************************************************************************)
(* Datasets: the daily CSV of one bed folder.                              *)
(***************************************************************************)
TotalCol == "Total Energy (kWh)"

\* time_intervals of the data generator: "00-02", "02-04", ..., "22-24"
TimeIntervals == <<"00-02", "02-04", "04-06", "06-08", "08-10", "10-12",
                   "12-14", "14-16", "16-18", "18-20", "20-22", "22-24">>

TimeColumnSet == Range(TimeIntervals)

\* a record whose total leaves the last interval out
GenRowPartialTotal(day, room, usage) ==
    [c \in {"Day", "Room No", TotalCol} \cup TimeColumnSet |->
        IF c = "Day" THEN day
        ELSE IF c = "Room No" THEN room
        ELSE IF c = TotalCol THEN SumSeq([i \in 1..(Len(TimeIntervals) - 1) |-> usage[TimeIntervals[i]]])
        ELSE usage[c]]

\* One generated record: Day, Room No, the interval readings, and their sum
GenRow(day, room, usage) ==
    [c \in {"Day", "Room No", TotalCol} \cup TimeColumnSet |->
        IF c = "Day" THEN day
        ELSE IF c = "Room No" THEN room
        ELSE IF c = TotalCol THEN SumSeq([i \in 1..Len(TimeIntervals) |-> usage[TimeIntervals[i]]])
        ELSE usage[c]]

\* The readings of a room: a flat profile at a level, with an optional swing
\* from the small hours to the evening (same total, larger variance).
Usage(level, swing) ==
    [c \in TimeColumnSet |->
        level + (IF c = "18-20" THEN swing ELSE IF c = "02-04" THEN 0 - swing ELSE 0)]

TypicalKind == <<4, 0>>
\* <<level, swing>>: typical; low; slightly high; high; very high; typical and
\* high with a swing
RoomKinds == {TypicalKind, <<2, 0>>, <<5, 0>>, <<10, 0>>, <<20, 0>>, <<4, 2>>, <<10, 2>>}

\* savgol_filter(window_length=5) needs at least 5 rows
SavgolWindow == 5

\* The CSV files of the model with n rooms for n in Sizes: every room typical, but
\* at most one, the first or the last of the file.
DatasetsOfSize(n) ==
    { [i \in 1..n |-> GenRow(1, i, IF i = odd[1] THEN Usage(odd[2][1], odd[2][2])
                                   ELSE Usage(TypicalKind[1], TypicalKind[2]))] :
        odd \in {0, 1, n} \X RoomKinds }

DatasetsOfSizes(Sizes) == UNION {DatasetsOfSize(n) : n \in Sizes}

\* the datasets the engine's pipeline is run on
Datasets == DatasetsOfSizes(SavgolWindow..MaxRooms)

(***************************************************************************)
(* EnergyConsumptionAnalyzer: construction and feature engineering.        *)
(***************************************************************************)
\* __init__: an unfitted RobustScaler, no models, no feature columns, no thresholds
NewAnalyzer ==
    [scaler |-> [fitted_on |-> None], models |-> <<>>,
     feature_columns |-> {}, anomaly_thresholds |-> <<>>]

Columns(d) == DOMAIN d[1]

\* time_columns: the columns whose name holds a '-' (of the known column names,
\* the interval columns), in the DataFrame's column order
TimeColumnsOf(d) == SelectSeq(TimeIntervals, LAMBDA c : c \in Columns(d))

Readings(row, tcols) == [i \in 1..Len(tcols) |-> row[tcols[i]]]

\* Series.var() (ddof = 1) of k readings, times k(k-1): k * sum(x^2) - sum(x)^2
VarianceNum(xs) ==
    Len(xs) * SumSeq([i \in 1..Len(xs) |-> xs[i] * xs[i]]) - SumSeq(xs) * SumSeq(xs)

PeakHours == {"18-20", "20-22"}
MorningHours == {"06-08", "08-10"}
NightHours == {"22-24", "00-02", "02-04", "04-06"}

\* |scipy.stats.zscore| of one total, squared: ((x - mean) / std)^2 with the
\* population std, = (n x - S)^2 / (n Q - S^2); 0/0 (NaN) when all totals are equal
ZScoreSquared(totals, x) ==
    LET n == Len(totals)
        S == SumSeq(totals)
        Q == SumSeq([i \in 1..n |-> totals[i] * totals[i]])
    IN  [num |-> (n * x - S) * (n * x - S), den |-> n * Q - S * S]

\* the feature columns whose values are irrational or filter outputs: held opaque
OpaqueFeatures == {"usage_std", "usage_skewness", "usage_kurtosis", "iqr_score",
                   "smoothed_usage", "usage_trend"}
Opaque == "real"

EngineeredRow(row, tcols, totals) ==
    LET xs  == Readings(row, tcols)
        r1  == Assign(row, "peak_usage", MaxOf(Range(xs)))
        r2  == Assign(r1, "off_peak_usage", MinOf(Range(xs)))
        r3  == Assign(r2, "usage_variance", VarianceNum(xs))
        r4  == Assign(r3, "usage_range", MaxOf(Range(xs)) - MinOf(Range(xs)))
        r5  == Assign(r4, "usage_median", [num |-> QuantileTimes(xs, 1, 2), den |-> 2])
        r6  == Assign(r5, "usage_q75", [num |-> QuantileTimes(xs, 3, 4), den |-> 4])
        r7  == Assign(r6, "usage_q25", [num |-> QuantileTimes(xs, 1, 4), den |-> 4])
        r8  == Assign(r7, "usage_iqr", [num |-> r7["usage_q75"].num - r7["usage_q25"].num, den |-> 4])
        r9  == Assign(r8, "peak_hours_usage", SumOver(row, PeakHours))
        r10 == Assign(r9, "peak_hours_ratio", [num |-> r9["peak_hours_usage"], den |-> row[TotalCol]])
        r11 == Assign(r10, "morning_usage", SumOver(row, MorningHours))
        r12 == Assign(r11, "morning_ratio", [num |-> r11["morning_usage"], den |-> row[TotalCol]])
        r13 == Assign(r12, "night_usage", SumOver(row, NightHours))
        r14 == Assign(r13, "night_ratio", [num |-> r13["night_usage"], den |-> row[TotalCol]])
        r15 == Assign(r14, "z_score", ZScoreSquared(totals, row[TotalCol]))
    IN  [c \in (DOMAIN r15) \cup OpaqueFeatures |-> IF c \in OpaqueFeatures THEN Opaque ELSE r15[c]]

\* engineer_features raises: KeyError for a missing hour column, ValueError from
\* savgol_filter when the window is longer than the data
EngineerFeaturesRaises(d) ==
    \/ ~((PeakHours \cup MorningHours \cup NightHours) \subseteq Columns(d))
    \/ Len(d) < SavgolWindow

\* the DataFrame engineer_features returns (a copy with the feature columns added)
EngineerFeaturesDF(d) ==
    [i \in 1..Len(d) |-> EngineeredRow(d[i], TimeColumnsOf(d), Column(d, TotalCol))]

\* self.feature_columns: every column but Day, Room No and the total
FeatureColumnsOf(d) == Columns(d) \ {"Day", "Room No", TotalCol}

(***************************************************************************)
(* detect_anomalies_advanced.                                              *)
(***************************************************************************)
\* z_threshold = 2.5, as the ratio 5/2
ZThresholdNum == 5
ZThresholdDen == 2
\* anomaly_scores >= 2
ConsensusThreshold == 2
\* anomaly_scores / 5.0
ConfidenceDivisor == 5

\* What the three fitted library estimators return for the rows: fit_predict of
\* IsolationForest and OneClassSVM gives -1 (outlier) or 1, DBSCAN gives a cluster
\* label, -1 for noise.  At most MaxFlaggedRows rows get any library flag.
LibClear == [iso |-> 1, svm |-> 1, cluster |-> 0]
LibFlagged == [iso : {-1, 1}, svm : {-1, 1}, cluster : {-1, 0}] \ {LibClear}
LibOutputs(n) ==
    UNION { { [i \in 1..n |-> IF i \in F THEN m[i] ELSE LibClear] : m \in [F -> LibFlagged] } :
            F \in {G \in SUBSET (1..n) : Cardinality(G) <= MaxFlaggedRows} }

\* (df['z_score'] > z_threshold).astype(int); a NaN z-score compares False
ZScoreAnomaly(z) ==
    IF z.den > 0 /\ z.num * ZThresholdDen * ZThresholdDen > ZThresholdNum * ZThresholdNum * z.den
    THEN 1 ELSE 0

\* 8 * lower_bound and 8 * upper_bound: q1 - 1.5 iqr and q3 + 1.5 iqr
IqrBounds(totals) ==
    LET q1 == QuantileTimes(totals, 1, 4)
        q3 == QuantileTimes(totals, 3, 4)
    IN  [lower |-> 2 * q1 - 3 * (q3 - q1), upper |-> 2 * q3 + 3 * (q3 - q1), den |-> 8]

IqrAnomaly(total, b) ==
    IF total * b.den < b.lower \/ total * b.den > b.upper THEN 1 ELSE 0

\* 5. Ensemble Decision: the sum of the five 0/1 detector flags
AnomalyScore(row) ==
    (IF row["iso_forest_anomaly"] = -1 THEN 1 ELSE 0)
    + (IF row["svm_anomaly"] = -1 THEN 1 ELSE 0)
    + row["dbscan_anomaly"] + row["z_score_anomaly"] + row["iqr_anomaly"]

FinalAnomalyWeak(score) == IF score >= ConsensusThreshold - 1 THEN 1 ELSE 0
\* (anomaly_scores >= 2).astype(int)
FinalAnomaly(score) == IF score >= ConsensusThreshold THEN 1 ELSE 0

AnomalyConfidenceOverFour(score) == [num |-> score, den |-> ConfidenceDivisor - 1]
\* anomaly_scores / 5.0
AnomalyConfidence(score) == [num |-> score, den |-> ConfidenceDivisor]

\* a classification that assigns 'Unusual Pattern' first, the bands overwriting it
AnomalyTypePatternFirst(total, variance, final, q90, q10, v90) ==
    LET t0 == "Normal"
        t1 == IF variance * 10 > v90 /\ final = 1 THEN "Unusual Pattern" ELSE t0
        t2 == IF total * 10 > q90 /\ final = 1 THEN "High Consumption" ELSE t1
        t3 == IF total * 10 < q10 /\ final = 1 THEN "Low Consumption" ELSE t2
    IN  t3

\* a classification whose masks leave out final_anomaly == 1
AnomalyTypeUnmasked(total, variance, final, q90, q10, v90) ==
    LET t0 == "Normal"
        t1 == IF total * 10 > q90 THEN "High Consumption" ELSE t0
        t2 == IF total * 10 < q10 THEN "Low Consumption" ELSE t1
        t3 == IF variance * 10 > v90 THEN "Unusual Pattern" ELSE t2
    IN  t3

AnomalyTypeNoPattern(total, variance, final, q90, q10, v90) ==
    IF total * 10 < q10 /\ final = 1 THEN "Low Consumption"
    ELSE IF total * 10 > q90 /\ final = 1 THEN "High Consumption"
    ELSE "Normal"
\* 6. Anomaly Classification: 'Normal', then three masked assignments in order, a
\* later one overwriting an earlier one.  q90, q10, v90 are 10 times the quantiles.
AnomalyType(total, variance, final, q90, q10, v90) ==
    LET t0 == "Normal"
        t1 == IF total * 10 > q90 /\ final = 1 THEN "High Consumption" ELSE t0
        t2 == IF total * 10 < q10 /\ final = 1 THEN "Low Consumption" ELSE t1
        t3 == IF variance * 10 > v90 /\ final = 1 THEN "Unusual Pattern" ELSE t2
    IN  t3

DetectedRow(row, lib, bounds, q90, q10, v90) ==
    LET r1 == Assign(row, "iso_forest_anomaly", lib.iso)
        r2 == Assign(r1, "svm_anomaly", lib.svm)
        r3 == Assign(r2, "dbscan_cluster", lib.cluster)
        r4 == Assign(r3, "dbscan_anomaly", IF r3["dbscan_cluster"] = -1 THEN 1 ELSE 0)
        r5 == Assign(r4, "z_score_anomaly", ZScoreAnomaly(r4["z_score"]))
        r6 == Assign(r5, "iqr_anomaly", IqrAnomaly(r5[TotalCol], bounds))
        r7 == Assign(r6, "final_anomaly", FinalAnomaly(AnomalyScore(r6)))
        r8 == Assign(r7, "anomaly_confidence", AnomalyConfidence(AnomalyScore(r6)))
    IN  Assign(r8, "anomaly_type",
               AnomalyType(r8[TotalCol], r8["usage_variance"], r8["final_anomaly"], q90, q10, v90))

\* df[self.feature_columns] raises KeyError when a feature column is not in df
DetectAnomaliesRaises(d, a) == ~(a.feature_columns \subseteq Columns(d))

\* the DataFrame detect_anomalies_advanced returns, given the estimators' outputs
DetectAnomaliesAdvancedDF(d, lib) ==
    LET totals == Column(d, TotalCol)
        bounds == IqrBounds(totals)
        q90    == QuantileTimes(totals, 9, 10)
        q10    == QuantileTimes(totals, 1, 10)
        v90    == QuantileTimes(Column(d, "usage_variance"), 9, 10)
    IN  [i \in 1..Len(d) |-> DetectedRow(d[i], lib[i], bounds, q90, q10, v90)]

\* a detection that fits its scaler and estimators once and reuses them afterwards
AnalyzerAfterDetectKeepScaler(a, fit, bounds) ==
    LET used == IF "iso_forest" \in DOMAIN a.models THEN a.models["iso_forest"].fitted_on
                ELSE fit
    IN  [scaler |-> [fitted_on |-> used],
         models |-> [k \in (DOMAIN a.models) \cup {"iso_forest", "svm", "dbscan"} |->
                        IF k \in {"iso_forest", "svm", "dbscan"}
                        THEN [fitted_on |-> used] ELSE a.models[k]],
         feature_columns |-> a.feature_columns,
         anomaly_thresholds |-> [z_threshold |-> [num |-> ZThresholdNum, den |-> ZThresholdDen],
                                 iqr_bounds |-> bounds]]

\* what detect_anomalies_advanced leaves in the analyzer: the fitted scaler, the
\* three estimators, the thresholds
AnalyzerAfterDetect(a, fit, bounds) ==
    LET kept == [k \in (DOMAIN a.models) \ {"iso_forest", "svm", "dbscan"} |-> a.models[k]]
    IN  [a EXCEPT !.scaler = [fitted_on |-> fit],
                  !.models = [k \in (DOMAIN kept) \cup {"iso_forest", "svm", "dbscan"} |->
                                 IF k \in DOMAIN kept THEN kept[k] ELSE [fitted_on |-> fit]],
                  !.anomaly_thresholds = [z_threshold |-> [num |-> ZThresholdNum, den |-> ZThresholdDen],
                                          iqr_bounds |-> bounds]]

(***************************************************************************)
(* The engine's pipeline on one dataset, as a script runs it: engineer     *)
(* features, then detect anomalies.                                        *)
(***************************************************************************)
NoCall == [entry |-> None]
NoThreads == <<>>
\* no models directory on disk
NoModelsDir == [saved |-> FALSE]
NoFs == [data_dir |-> FALSE, folders |-> {}, models |-> NoModelsDir]

InitPipeline ==
    /\ df \in Datasets
    /\ stage = "loaded"
    /\ analyzer = NewAnalyzer
    /\ fs = NoFs /\ year = 0 /\ call = NoCall /\ threads = NoThreads

EngineerFeatures ==
    /\ stage = "loaded"
    /\ ~EngineerFeaturesRaises(df)
    /\ df' = EngineerFeaturesDF(df)
    /\ analyzer' = [analyzer EXCEPT !.feature_columns = FeatureColumnsOf(df')]
    /\ stage' = "engineered"
    /\ UNCHANGED <<fs, year, call, threads>>

DetectAnomaliesAdvanced ==
    /\ stage = "engineered"
    /\ ~DetectAnomaliesRaises(df, analyzer)
    /\ \E lib \in LibOutputs(Len(df)) :
          df' = DetectAnomaliesAdvancedDF(df, lib)
    /\ analyzer' = AnalyzerAfterDetect(analyzer, Column(df, TotalCol),
                                     IqrBounds(Column(df, TotalCol)))
    /\ stage' = "detected"
    /\ UNCHANGED <<fs, year, call, threads>>

\* predict_energy_consumption on the rows: the predictions are real-valued outputs
\* of the fitted regressors; no other column changes
PredictedRow(row) ==
    [c \in (DOMAIN row) \cup {"rf_prediction", "lr_prediction", "ensemble_prediction",
                              "prediction_error", "prediction_error_ratio"} |->
        IF c \in DOMAIN row THEN row[c] ELSE Opaque]
PredictEnergyConsumptionDF(d) == [i \in 1..Len(d) |-> PredictedRow(d[i])]

PredictEnergyConsumption ==
    /\ stage = "detected"
    /\ df' = PredictEnergyConsumptionDF(df)
    /\ analyzer' = [analyzer EXCEPT !.models =
           [k \in (DOMAIN analyzer.models) \cup {"random_forest", "linear_regression"} |->
               IF k \in {"random_forest", "linear_regression"}
               THEN [fitted_on |-> Column(df, TotalCol)] ELSE analyzer.models[k]]]
    /\ stage' = "predicted"
    /\ UNCHANGED <<fs, year, call, threads>>

\* generate_insights: the 'summary' section (the percentage as a fraction)
InsightsSummary(d) ==
    [total_rooms |-> Len(d),
     total_energy |-> SumSeq(Column(d, TotalCol)),
     min_energy |-> MinOf(Range(Column(d, TotalCol))),
     max_energy |-> MaxOf(Range(Column(d, TotalCol))),
     anomaly_count |-> SumSeq(Column(d, "final_anomaly")),
     anomaly_percentage |-> [num |-> SumSeq(Column(d, "final_anomaly")) * 100, den |-> Len(d)]]

\* anomalies = df[df['final_anomaly'] == 1]
AnomalousRows(d) == SelectSeq(d, LAMBDA r : r["final_anomaly"] = 1)

\* confidence a is greater than confidence b (fractions)
ConfidenceAbove(a, b) == a.num * b.den > b.num * a.den

\* the record of a room in top_anomalous_rooms
TopRoomRecord(r) ==
    [c \in {"Room No", TotalCol, "anomaly_type", "anomaly_confidence"} |-> r[c]]

\* the three rows of least confidence (nsmallest in place of nlargest)
TopAnomalousRoomsLowest(anoms) ==
    LET before(i) == Cardinality({j \in DOMAIN anoms :
                         \/ ConfidenceAbove(anoms[i]["anomaly_confidence"], anoms[j]["anomaly_confidence"])
                         \/ /\ anoms[j]["anomaly_confidence"] = anoms[i]["anomaly_confidence"]
                            /\ j < i})
        n == IF Len(anoms) < 3 THEN Len(anoms) ELSE 3
    IN  [k \in 1..n |-> TopRoomRecord(anoms[CHOOSE i \in DOMAIN anoms : before(i) = k - 1])]

\* anomalies.nlargest(3, 'anomaly_confidence')[[...]].to_dict('records'): the rows
\* in descending order of confidence, equal ones in their order in the frame, the
\* first three of them
TopAnomalousRooms(anoms) ==
    LET before(i) == Cardinality({j \in DOMAIN anoms :
                         \/ ConfidenceAbove(anoms[j]["anomaly_confidence"], anoms[i]["anomaly_confidence"])
                         \/ /\ anoms[j]["anomaly_confidence"] = anoms[i]["anomaly_confidence"]
                            /\ j < i})
        n == IF Len(anoms) < 3 THEN Len(anoms) ELSE 3
    IN  [k \in 1..n |-> TopRoomRecord(anoms[CHOOSE i \in DOMAIN anoms : before(i) = k - 1])]

CountType(anoms, type) == Cardinality({i \in DOMAIN anoms : anoms[i]["anomaly_type"] = type})

\* generate_insights: the 'anomalies' section, the empty dict when no row is
\* anomalous (avg_confidence as sum over count)
InsightsAnomalies(d) ==
    LET anoms == AnomalousRows(d)
    IN  IF Len(anoms) > 0
        THEN [high_consumption |-> CountType(anoms, "High Consumption"),
              low_consumption |-> CountType(anoms, "Low Consumption"),
              unusual_pattern |-> CountType(anoms, "Unusual Pattern"),
              avg_confidence |-> [num |-> SumSeq([i \in DOMAIN anoms |->
                                                   anoms[i]["anomaly_confidence"].num]),
                                  den |-> ConfidenceDivisor * Len(anoms)],
              top_anomalous_rooms |-> TopAnomalousRooms(anoms)]
        ELSE <<>>

\* a rule that fires at 15 percent already
HighAnomalyRateFrom15(pct) == pct.num >= 15 * pct.den

\* insights['summary']['anomaly_percentage'] > 15
HighAnomalyRate(pct) == pct.num > 15 * pct.den

HighAnomalyRateMessage == "High anomaly rate detected. Consider investigating equipment or occupancy patterns."

\* generate_insights: the first of the recommendation rules; the three rules after
\* it append their own messages behind this one and are not carried here
InsightsRecommendations(d) ==
    IF HighAnomalyRate(InsightsSummary(d).anomaly_percentage)
    THEN <<HighAnomalyRateMessage>> ELSE <<>>

GenerateInsightsOf(d) ==
    [summary |-> InsightsSummary(d),
     anomalies |-> InsightsAnomalies(d),
     recommendations |-> InsightsRecommendations(d)]

GenerateInsights ==
    /\ stage = "predicted"
    /\ call' = [entry |-> "generate_insights", insights |-> GenerateInsightsOf(df)]
    /\ stage' = "insights"
    /\ UNCHANGED <<df, analyzer, fs, year, threads>>

\* a 'summary' of the response that counts the rooms the isolation forest flagged
ResponseSummaryByIsoForest(d) ==
    [total_rooms |-> Len(d),
     total_energy |-> SumSeq(Column(d, TotalCol)),
     anomaly_count |-> Cardinality({i \in 1..Len(d) : d[i]["iso_forest_anomaly"] = 0 - 1}),
     anomaly_percentage |-> [num |-> SumSeq(Column(d, "final_anomaly")) * 100, den |-> Len(d)]]

\* analyze_data: the 'summary' of the response
ResponseSummary(d) ==
    [total_rooms |-> Len(d),
     total_energy |-> SumSeq(Column(d, TotalCol)),
     anomaly_count |-> SumSeq(Column(d, "final_anomaly")),
     anomaly_percentage |-> [num |-> SumSeq(Column(d, "final_anomaly")) * 100, den |-> Len(d)]]

\* analyze_data: response_data, with df.to_dict('records') as data
ResponseData(d, insights) ==
    [success |-> TRUE, data |-> d, insights |-> insights, summary |-> ResponseSummary(d)]

\* analyze_data builds the success response from the DataFrame and the insights
JsonifyResponse ==
    /\ stage = "insights"
    /\ call' = [entry |-> "analyze_data", response |-> ResponseData(df, call.insights)]
    /\ stage' = "responded"
    /\ UNCHANGED <<df, analyzer, fs, year, threads>>

NextPipeline == EngineerFeatures \/ DetectAnomaliesAdvanced

SpecPipeline == InitPipeline /\ [][NextPipeline]_vars

\* The whole analysis of one dataset, as analyze_data runs it after load_data:
\* the two stages above, then prediction, insights and the response.
NextAnalysis ==
    \/ EngineerFeatures
    \/ DetectAnomaliesAdvanced
    \/ PredictEnergyConsumption
    \/ GenerateInsights
    \/ JsonifyResponse

SpecAnalysis == InitPipeline /\ [][NextAnalysis]_vars

(***************************************************************************)
(* Properties of detect_anomalies_advanced (under SpecPipeline).           *)
(***************************************************************************)
Rows == 1..Len(df)

\* the five detectors of the ensemble, read off the row's own columns and the
\* dataset's totals: isolation forest = -1, one-class SVM = -1, DBSCAN cluster = -1,
\* z_score > 2.5 (z^2 > 25/4), total outside [q1 - 1.5 iqr, q3 + 1.5 iqr]
DetectorFlags(i) ==
    LET row == df[i]
        b   == IqrBounds(Column(df, TotalCol))
        z   == row["z_score"]
    IN  Cardinality(
          {k \in {"iso", "svm", "dbscan", "z", "iqr"} :
             \/ k = "iso" /\ row["iso_forest_anomaly"] = -1
             \/ k = "svm" /\ row["svm_anomaly"] = -1
             \/ k = "dbscan" /\ row["dbscan_cluster"] = -1
             \/ k = "z" /\ z.den > 0 /\ 4 * z.num > 25 * z.den
             \/ k = "iqr" /\ (8 * row[TotalCol] < b.lower \/ 8 * row[TotalCol] > b.upper)})

\* C1: after detect_anomalies_advanced, for every row final_anomaly = 1 if and only
\* if at least 2 of the 5 detectors flag the row; with 0 or 1 flags it is 0.
C1_ConsensusOfTwo ==
    stage = "detected" =>
        \A i \in Rows :
            /\ df[i]["final_anomaly"] \in {0, 1}
            /\ df[i]["final_anomaly"] = 1 <=> DetectorFlags(i) >= 2

\* C1 witness: one row with exactly two flags is anomalous (the z-score and the IQR
\* detector agreeing), another with exactly one flag is not.
C1_Witness ==
    /\ stage = "detected"
    /\ \E i \in Rows : /\ DetectorFlags(i) = 2 /\ df[i]["final_anomaly"] = 1
                       /\ df[i]["z_score_anomaly"] = 1 /\ df[i]["iqr_anomaly"] = 1
    /\ \E j \in Rows : DetectorFlags(j) = 1 /\ df[j]["final_anomaly"] = 0

\* C2: for every row anomaly_confidence = (number of detectors that flagged it) / 5,
\* one of 0, 0.2, ..., 1.0, and final_anomaly = 1 exactly when it is >= 0.4.
C2_ConfidenceIsFlagsOverFive ==
    stage = "detected" =>
        \A i \in Rows :
            LET c == df[i]["anomaly_confidence"] IN
            /\ c.den = 5
            /\ c.num = DetectorFlags(i)
            /\ c.num \in 0..5
            /\ df[i]["final_anomaly"] = 1 <=> 10 * c.num >= 4 * c.den

\* C2 witness: a row with confidence 2/5 = 0.4 that is anomalous, and a row with
\* confidence 1/5 that is not.
C2_Witness ==
    /\ stage = "detected"
    /\ \E i \in Rows : /\ df[i]["anomaly_confidence"] = [num |-> 2, den |-> 5]
                       /\ df[i]["final_anomaly"] = 1
    /\ \E j \in Rows : /\ df[j]["anomaly_confidence"] = [num |-> 1, den |-> 5]
                       /\ df[j]["final_anomaly"] = 0

\* the percentile bands of the dataset (10 times the quantiles)
TotalQ90 == QuantileTimes(Column(df, TotalCol), 9, 10)
TotalQ10 == QuantileTimes(Column(df, TotalCol), 1, 10)
VarianceQ90 == QuantileTimes(Column(df, "usage_variance"), 9, 10)

\* C3 as stated: the anomaly_type of a consensus-anomalous room is decided by its
\* total-energy band alone: above the 90th percentile 'High Consumption', below the
\* 10th 'Low Consumption'.
C3_TypeByTotalBandAlone ==
    stage = "detected" =>
        \A i \in Rows :
            df[i]["final_anomaly"] = 1 =>
                /\ 10 * df[i][TotalCol] > TotalQ90 => df[i]["anomaly_type"] = "High Consumption"
                /\ 10 * df[i][TotalCol] < TotalQ10 => df[i]["anomaly_type"] = "Low Consumption"

\* C3 amended: a consensus-anomalous room whose usage_variance exceeds the 90th
\* percentile of usage_variance is 'Unusual Pattern' whatever its band; otherwise it
\* is 'High Consumption' above the 90th percentile of the totals, 'Low Consumption'
\* below the 10th, and stays 'Normal' in between.
C3_TypeByBandUnlessUnusual ==
    stage = "detected" =>
        \A i \in Rows :
            df[i]["final_anomaly"] = 1 =>
                df[i]["anomaly_type"] =
                    IF 10 * df[i]["usage_variance"] > VarianceQ90 THEN "Unusual Pattern"
                    ELSE IF 10 * df[i][TotalCol] > TotalQ90 THEN "High Consumption"
                    ELSE IF 10 * df[i][TotalCol] < TotalQ10 THEN "Low Consumption"
                    ELSE "Normal"

\* C3 witness: an anomalous room above the 90th percentile, of ordinary variance,
\* typed 'High Consumption'.
C3_Witness ==
    /\ stage = "detected"
    /\ \E i \in Rows : /\ df[i]["final_anomaly"] = 1
                       /\ 10 * df[i][TotalCol] > TotalQ90
                       /\ 10 * df[i]["usage_variance"] <= VarianceQ90
                       /\ df[i]["anomaly_type"] = "High Consumption"

(***************************************************************************)
(* The simple detector: utils.data_loader.detect_anomalies.                *)
(***************************************************************************)
\* IsolationForest(contamination=0.1).fit_predict on the totals: -1 or 1 per row.
\* The forest scores a value, so rows with equal totals get equal labels; the
\* threshold is a percentile of the scores, so the best-scored row is never flagged;
\* at most MaxFlaggedRows rows are flagged.
IsoForestOutputs(d) ==
    { [i \in 1..Len(d) |-> IF i \in F THEN -1 ELSE 1] :
        F \in {G \in SUBSET (1..Len(d)) :
                 /\ Cardinality(G) <= MaxFlaggedRows
                 /\ G # 1..Len(d)
                 /\ \A i \in G, j \in 1..Len(d) : d[i][TotalCol] = d[j][TotalCol] => j \in G} }

AnomalyReasonAboveMean(total, n, S) ==
    IF n * total > 3 * S THEN "Faulty Equipment?"
    ELSE IF n * total > 2 * S THEN "Possible Overuse"
    ELSE IF n * total > S THEN "Unusual Spike"
    ELSE "Normal"
\* 'Anomaly Reason': 'Normal', then three masked assignments against 1.5, 2 and 3
\* times avg_energy = S / n, a later one overwriting an earlier one
AnomalyReason(total, n, S) ==
    LET t0 == "Normal"
        t1 == IF 2 * n * total > 3 * S THEN "Unusual Spike" ELSE t0
        t2 == IF n * total > 2 * S THEN "Possible Overuse" ELSE t1
        t3 == IF n * total > 3 * S THEN "Faulty Equipment?" ELSE t2
    IN  t3

\* an 'Anomaly' column that keeps the forest's label for every room
AnomalyLabelForestOnly(iso, total, n, S) == IF iso = 1 THEN "Normal" ELSE "Anomaly"

\* 'Anomaly': the forest's label, reset to 'Normal' for a total below avg_energy
AnomalyLabel(iso, total, n, S) ==
    LET mapped == IF iso = 1 THEN "Normal" ELSE "Anomaly"
    IN  IF n * total < S THEN "Normal" ELSE mapped

SimpleDetectedRow(row, iso, n, S) ==
    LET r1 == Assign(row, "Anomaly", AnomalyLabel(iso, row[TotalCol], n, S))
    IN  Assign(r1, "Anomaly Reason", AnomalyReason(row[TotalCol], n, S))

\* the DataFrame detect_anomalies returns (the caller's, modified in place)
DetectAnomaliesDF(d, iso) ==
    LET n == Len(d)
        S == SumSeq(Column(d, TotalCol))
    IN  [i \in 1..n |-> SimpleDetectedRow(d[i], iso[i], n, S)]

InitSimple ==
    /\ df \in DatasetsOfSizes(1..MaxRooms)
    /\ stage = "loaded"
    /\ analyzer = NewAnalyzer
    /\ fs = NoFs /\ year = 0 /\ call = NoCall /\ threads = NoThreads

DetectAnomalies ==
    /\ stage = "loaded"
    /\ \E iso \in IsoForestOutputs(df) : df' = DetectAnomaliesDF(df, iso)
    /\ stage' = "simple_detected"
    /\ UNCHANGED <<analyzer, fs, year, call, threads>>

NextSimple == DetectAnomalies

SpecSimple == InitSimple /\ [][NextSimple]_vars

\* no room's total exceeds 1.5 times the dataset mean
NoTotalAboveOneAndAHalfMean ==
    \A i \in Rows : 2 * Len(df) * df[i][TotalCol] <= 3 * SumSeq(Column(df, TotalCol))

\* C4 as stated: under the simple detector, when no room's total exceeds 1.5 times
\* the dataset mean, no room is labelled anomalous.
C4_NoRoomLabelledAnomaly ==
    (stage = "simple_detected" /\ NoTotalAboveOneAndAHalfMean) =>
        \A i \in Rows : df[i]["Anomaly"] = "Normal"

\* C4 amended: when no room's total exceeds 1.5 times the dataset mean, every room's
\* 'Anomaly Reason' is 'Normal' and every room below the mean has 'Anomaly' =
\* 'Normal' (a room at or above the mean keeps the isolation forest's label).
C4_NoRoomGivenAReason ==
    (stage = "simple_detected" /\ NoTotalAboveOneAndAHalfMean) =>
        \A i \in Rows :
            /\ df[i]["Anomaly Reason"] = "Normal"
            /\ Len(df) * df[i][TotalCol] < SumSeq(Column(df, TotalCol)) => df[i]["Anomaly"] = "Normal"

\* C4 witness: such a dataset, with totals that differ, after detection: every
\* reason 'Normal', and a room above the mean labelled 'Anomaly' by the forest.
C4_Witness ==
    /\ stage = "simple_detected" /\ NoTotalAboveOneAndAHalfMean
    /\ \E i, j \in Rows : df[i][TotalCol] < df[j][TotalCol]
    /\ \A i \in Rows : df[i]["Anomaly Reason"] = "Normal"
    /\ \E i \in Rows : df[i]["Anomaly"] = "Anomaly"

(***************************************************************************)
(* Strings.  A string whose characters matter is a sequence of one-        *)
(* character strings.                                                      *)
(***************************************************************************)
LowerCase == <<"a", "b", "c", "d", "e", "f", "g", "h", "i", "j", "k", "l", "m",
               "n", "o", "p", "q", "r", "s", "t", "u", "v", "w", "x", "y", "z">>
UpperCase == <<"A", "B", "C", "D", "E", "F", "G", "H", "I", "J", "K", "L", "M",
               "N", "O", "P", "Q", "R", "S", "T", "U", "V", "W", "X", "Y", "Z">>

IsLower(c) == c \in Range(LowerCase)
IsUpper(c) == c \in Range(UpperCase)
IsCased(c) == IsLower(c) \/ IsUpper(c)
IndexIn(alphabet, c) == CHOOSE i \in DOMAIN alphabet : alphabet[i] = c
ToUpper(c) == IF IsLower(c) THEN UpperCase[IndexIn(LowerCase, c)] ELSE c
ToLower(c) == IF IsUpper(c) THEN LowerCase[IndexIn(UpperCase, c)] ELSE c

\* str.title(): a cased character is upper-cased after an uncased one (or at the
\* start) and lower-cased after a cased one
Title(s) ==
    [i \in 1..Len(s) |-> IF i = 1 \/ ~IsCased(s[i - 1]) THEN ToUpper(s[i]) ELSE ToLower(s[i])]

Lower(s) == [i \in 1..Len(s) |-> ToLower(s[i])]
Upper(s) == [i \in 1..Len(s) |-> ToUpper(s[i])]
SwapCase(s) == [i \in 1..Len(s) |-> IF IsUpper(s[i]) THEN ToLower(s[i]) ELSE ToUpper(s[i])]
\* every other character upper-cased, from the second on
Alternate(s) == [i \in 1..Len(s) |-> IF i % 2 = 0 THEN ToUpper(s[i]) ELSE ToLower(s[i])]

(***************************************************************************)
(* Month and day validation, load_data.                                    *)
(***************************************************************************)
\* valid_months: datetime(2000, i, 1).strftime('%B') for i = 1..12
ValidMonths ==
  << <<"J", "a", "n", "u", "a", "r", "y">>,
     <<"F", "e", "b", "r", "u", "a", "r", "y">>,
     <<"M", "a", "r", "c", "h">>,
     <<"A", "p", "r", "i", "l">>,
     <<"M", "a", "y">>,
     <<"J", "u", "n", "e">>,
     <<"J", "u", "l", "y">>,
     <<"A", "u", "g", "u", "s", "t">>,
     <<"S", "e", "p", "t", "e", "m", "b", "e", "r">>,
     <<"O", "c", "t", "o", "b", "e", "r">>,
     <<"N", "o", "v", "e", "m", "b", "e", "r">>,
     <<"D", "e", "c", "e", "m", "b", "e", "r">> >>

\* the month strings a caller passes: each month name in five letter cases, and
\* strings that are no month name
InvalidMonthInputs ==
   { <<>>,
     <<"J", "a", "n">>,
     <<"J", "a", "n", "u", "a", "r">>,
     <<"M", "a", "y", "y">>,
     <<"m", "a", "y", " ">>,
     <<" ", "m", "a", "y">>,
     <<"S", "m", "a", "r", "c", "h">>,
     <<"j", "a", "n", " ", "u", "a", "r", "y">>,
     <<"1", "m", "a", "y">> }
MonthInputs ==
    UNION { {ValidMonths[m], Lower(ValidMonths[m]), Upper(ValidMonths[m]),
             SwapCase(ValidMonths[m]), Alternate(ValidMonths[m])} : m \in DOMAIN ValidMonths }
    \cup InvalidMonthInputs

\* the largest day number a caller passes
MaxDay == 32
DayInputs == {0 - 1, 0, 1} \cup (28..MaxDay)

\* datetime.now().year: this year, a leap year, a century year that is no leap year
Years == {2026, 2028, 2100}

BedInputs == {<<"2">>, <<"4">>, <<"6">>, <<"3">>}

IsLeap(y) == (y % 4 = 0 /\ y % 100 # 0) \/ y % 400 = 0

\* datetime: the days of the year before the first of month m (1..13; 13 is the
\* first of January of the next year)
DaysBeforeMonth(y, m) ==
    LET common == <<0, 31, 59, 90, 120, 151, 181, 212, 243, 273, 304, 334, 365>>
    IN  common[m] + (IF m > 2 /\ IsLeap(y) THEN 1 ELSE 0)

\* strptime(month, "%B").month
MonthNumber(month) == CHOOSE m \in DOMAIN ValidMonths : ValidMonths[m] = month

MaxDaysNoLeap(y, m) ==
    IF m < 12 THEN DaysBeforeMonth(2026, m + 1) - DaysBeforeMonth(2026, m) ELSE 31
\* max_days: the day of (the first of the next month minus one day), 31 for December
MaxDays(y, m) ==
    IF m < 12 THEN DaysBeforeMonth(y, m + 1) - DaysBeforeMonth(y, m) ELSE 31

ValidateMonthCaseSensitive(month) ==
    IF month \in Range(ValidMonths) THEN [ok |-> TRUE, month |-> month]
    ELSE [ok |-> FALSE, month |-> month]
\* _validate_month / validate_month: the title-cased month, or ValueError
ValidateMonth(month) ==
    LET titled == Title(month)
    IN  IF titled \in Range(ValidMonths) THEN [ok |-> TRUE, month |-> titled]
        ELSE [ok |-> FALSE, month |-> titled]

\* _validate_day / validate_day: TRUE, or FALSE for ValueError
ValidateDay(y, month, day) == 1 <= day /\ day <= MaxDays(y, MonthNumber(month))

\* The data directory is a set of bed folders, each written by a generator script:
\* <month>/<bed> Bedroom Data - <abbr>/<abbr>_<bed>bed_energy_consumption_day_<d>.csv
\* for d = 1..num_days, every file of a folder with the same columns.
MonthAbbr(month) == SubSeq(month, 1, 3)

FilePath(bed, month, day) ==
    [month |-> month,
     folder |-> <<bed, " Bedroom Data - ", MonthAbbr(month)>>,
     file |-> <<MonthAbbr(month), "_", bed, "bed_energy_consumption_day_", day, ".csv">>]

FolderFiles(f) == {FilePath(f.bed, f.month, d) : d \in 1..f.num_days}

\* os.path.exists(file_path)
PathExists(files, path) == \E f \in files : path \in FolderFiles(f)

\* the columns pd.read_csv finds in the file
CsvColumns(files, path) == (CHOOSE f \in files : path \in FolderFiles(f)).columns

GeneratedColumns == {"Day", "Room No", TotalCol} \cup TimeColumnSet

LoadDataNoColumnCheck(files, y, bed, month, day) ==
    LET vm == ValidateMonth(month)
        path == FilePath(bed, vm.month, day)
    IN  IF ~vm.ok THEN [kind |-> "ValueError", at |-> "validate_month", touched |-> FALSE]
        ELSE IF ~ValidateDay(y, vm.month, day)
             THEN [kind |-> "ValueError", at |-> "validate_day", touched |-> FALSE]
        ELSE IF ~PathExists(files, path)
             THEN [kind |-> "FileNotFoundError", at |-> "exists", touched |-> TRUE]
        ELSE [kind |-> "DataFrame", at |-> None, touched |-> TRUE,
              path |-> path, columns |-> CsvColumns(files, path)]
\* load_data (the analyzer's method and the utils function are the same code):
\* the exception raised and where, or the DataFrame read
LoadData(files, y, bed, month, day) ==
    LET vm == ValidateMonth(month)
        path == FilePath(bed, vm.month, day)
    IN  IF ~vm.ok THEN [kind |-> "ValueError", at |-> "validate_month", touched |-> FALSE]
        ELSE IF ~ValidateDay(y, vm.month, day)
             THEN [kind |-> "ValueError", at |-> "validate_day", touched |-> FALSE]
        ELSE IF ~PathExists(files, path)
             THEN [kind |-> "FileNotFoundError", at |-> "exists", touched |-> TRUE]
        ELSE IF TotalCol \notin CsvColumns(files, path)
             THEN [kind |-> "ValueError", at |-> "columns", touched |-> TRUE]
        ELSE [kind |-> "DataFrame", at |-> None, touched |-> TRUE,
              path |-> path, columns |-> CsvColumns(files, path)]

\* A bed folder as a generator script leaves it.  rows: the rooms of each file;
\* quirk: None, or what sets the file apart from a generated one.
Folder(month, bed, num_days, columns, rows, quirk) ==
    [month |-> month, bed |-> bed, num_days |-> num_days, columns |-> columns,
     rows |-> rows, quirk |-> quirk]

\* num_rooms and num_days of 6bedJan.py
NumRooms == 15
NumDays == 30

\* Bed folders: January 6-bed as 6bedJan.py writes it; a January 2-bed folder of 31
\* days whose files have no total column; February 4-bed with a leap day; December
\* 2-bed; a January folder for 3 beds.
BedFolders ==
    { Folder(ValidMonths[1], <<"6">>, NumDays, GeneratedColumns, NumRooms, None),
      Folder(ValidMonths[1], <<"2">>, 31, GeneratedColumns \ {TotalCol}, NumRooms, None),
      Folder(ValidMonths[2], <<"4">>, 29, GeneratedColumns, NumRooms, None),
      Folder(ValidMonths[12], <<"2">>, 31, GeneratedColumns, NumRooms, None),
      Folder(ValidMonths[1], <<"3">>, NumDays, GeneratedColumns, NumRooms, None) }
FileSystems == { [data_dir |-> TRUE, folders |-> {}, models |-> NoModelsDir],
                 [data_dir |-> TRUE, folders |-> BedFolders, models |-> NoModelsDir] }

InitLoad ==
    /\ fs \in FileSystems
    /\ year \in Years
    /\ call = NoCall
    /\ df = <<>> /\ stage = "idle" /\ analyzer = NewAnalyzer /\ threads = NoThreads

\* EnergyConsumptionAnalyzer.load_data(bed_type, month, day)
AnalyzerLoadData ==
    /\ call = NoCall
    /\ \E bed \in BedInputs, month \in MonthInputs, day \in DayInputs :
          call' = [entry |-> "EnergyConsumptionAnalyzer.load_data", bed |-> bed,
                   month |-> month, day |-> day,
                   result |-> LoadData(fs.folders, year, bed, month, day)]
    /\ UNCHANGED <<df, stage, analyzer, fs, year, threads>>

\* utils.data_loader.load_data(bed_type, month, day)
UtilsLoadData ==
    /\ call = NoCall
    /\ \E bed \in BedInputs, month \in MonthInputs, day \in DayInputs :
          call' = [entry |-> "data_loader.load_data", bed |-> bed,
                   month |-> month, day |-> day,
                   result |-> LoadData(fs.folders, year, bed, month, day)]
    /\ UNCHANGED <<df, stage, analyzer, fs, year, threads>>

NextLoad == AnalyzerLoadData \/ UtilsLoadData

SpecLoad == InitLoad /\ [][NextLoad]_vars

(***************************************************************************)
(* Properties of load_data (under SpecLoad).                               *)
(***************************************************************************)
\* the days of month m of year y, by the calendar rule
CalendarDays(y, m) ==
    IF m = 2 THEN (IF IsLeap(y) THEN 29 ELSE 28)
    ELSE IF m \in {4, 6, 9, 11} THEN 30 ELSE 31

\* (month, day) names a day of the current year, the month in any letter case
IsDayOfYear(month, day) ==
    \E m \in DOMAIN ValidMonths :
        /\ Lower(month) = Lower(ValidMonths[m])
        /\ 1 <= day /\ day <= CalendarDays(year, m)

PassedValidation == call.result.at \notin {"validate_month", "validate_day"}

\* C5: load_data (the analyzer's and the utils one) accepts (month, day) if and
\* only if month, in any letter case, is one of the 12 English month names and
\* 1 <= day <= the days of that month in the current year; otherwise it raises
\* ValueError before the file system is touched.
C5_AcceptsExactlyDaysOfYear ==
    call # NoCall =>
        /\ PassedValidation <=> IsDayOfYear(call.month, call.day)
        /\ ~IsDayOfYear(call.month, call.day) =>
              call.result.kind = "ValueError" /\ ~call.result.touched

\* C5 witness: 29 FEBRUARY, in capitals, passes validation in a leap year.
C5_Witness ==
    /\ call # NoCall
    /\ call.month = Upper(ValidMonths[2]) /\ call.day = 29 /\ IsLeap(year)
    /\ PassedValidation

\* the bed folder that holds the file load_data asks for, if any
FoldersHolding(bed, month, day) ==
    {f \in fs.folders : f.month = Title(month) /\ f.bed = bed /\ day <= f.num_days}

\* C7: for valid month and day, load_data raises FileNotFoundError when the CSV for
\* (bed type, month, day) does not exist, ValueError when it exists without a
\* 'Total Energy (kWh)' column, and returns a DataFrame only when the file exists
\* and has the column.
C7_LoadOutcomeByFile ==
    (call # NoCall /\ PassedValidation) =>
        LET holding == FoldersHolding(call.bed, call.month, call.day)
            has_total == \E f \in holding : TotalCol \in f.columns
        IN  /\ call.result.kind = "FileNotFoundError" <=> holding = {}
            /\ call.result.kind = "ValueError" <=> (holding # {} /\ ~has_total)
            /\ call.result.kind = "DataFrame" <=> (holding # {} /\ has_total)

\* C7 witness: a valid month and day whose file exists without the total column:
\* ValueError at the column check.
C7_Witness ==
    /\ call # NoCall /\ PassedValidation
    /\ FoldersHolding(call.bed, call.month, call.day) # {}
    /\ call.result.kind = "ValueError" /\ call.result.at = "columns"

(***************************************************************************)
(* server.py: the Flask application.  app.run(threaded=True) handles each  *)
(* request on a thread of its own; every handler works on the one          *)
(* module-level analyzer.  A DataFrame is carried here by its columns, its  *)
(* number of rows and the quirk of the file it was read from.              *)
(***************************************************************************)
\* the handler threads that can be active at once
NumThreads == 2

\* a JSON value of the request body: a string, a number, or absent (data.get -> None)
StrParam(v) == [t |-> "str", s |-> v, n |-> 0]
IntParam(n) == [t |-> "int", s |-> <<>>, n |-> n]
Missing == [t |-> "none", s |-> <<>>, n |-> 0]

\* a check that only asks whether the parameter was sent (is not None)
TruthyNotNone(p) == p.t # "none"

\* Python truth of a parameter: None, "" and 0 are false
Truthy(p) ==
    IF p.t = "str" THEN p.s # <<>>
    ELSE IF p.t = "int" THEN p.n # 0
    ELSE FALSE

Digits == <<"0", "1", "2", "3", "4", "5", "6", "7", "8", "9">>
DigitValue(c) == (CHOOSE i \in DOMAIN Digits : Digits[i] = c) - 1
RECURSIVE ParseDigits(_)
ParseDigits(s) ==
    IF s = <<>> THEN 0
    ELSE 10 * ParseDigits(SubSeq(s, 1, Len(s) - 1)) + DigitValue(s[Len(s)])

\* int(day): the number, or ValueError for a string that is not decimal digits
PyInt(p) ==
    IF p.t = "int" THEN [ok |-> TRUE, v |-> p.n]
    ELSE IF p.s # <<>> /\ \A i \in DOMAIN p.s : p.s[i] \in Range(Digits)
         THEN [ok |-> TRUE, v |-> ParseDigits(p.s)]
    ELSE [ok |-> FALSE, v |-> 0]

\* the columns each stage adds to the DataFrame
EngineeredColumns ==
    {"peak_usage", "off_peak_usage", "usage_variance", "usage_range", "usage_median",
     "usage_q75", "usage_q25", "usage_iqr", "peak_hours_usage", "peak_hours_ratio",
     "morning_usage", "morning_ratio", "night_usage", "night_ratio", "z_score"}
    \cup OpaqueFeatures
DetectedColumns ==
    {"iso_forest_anomaly", "svm_anomaly", "dbscan_cluster", "dbscan_anomaly",
     "z_score_anomaly", "iqr_anomaly", "final_anomaly", "anomaly_confidence",
     "anomaly_type"}
PredictedColumns ==
    {"rf_prediction", "lr_prediction", "ensemble_prediction", "prediction_error",
     "prediction_error_ratio"}

\* Files that fail a later stage: a row whose total is 0 beside non-zero evening
\* readings makes peak_hours_ratio infinite, which the scaler rejects; a row with
\* no total (NaN) is rejected as a regression target.
ZeroTotal == "zero_total"
NanTotal == "nan_total"

\* the data directory of the server: generated folders for 6 and for 3 beds, one
\* folder for each stage that can fail on what a file holds, and one whose files
\* lack an afternoon interval that no feature names
ServerFolders ==
    { Folder(ValidMonths[1], <<"6">>, NumDays, GeneratedColumns, NumRooms, None),
      Folder(ValidMonths[1], <<"3">>, NumDays, GeneratedColumns, NumRooms, None),
      Folder(ValidMonths[1], <<"4">>, NumDays, GeneratedColumns \ {TotalCol}, NumRooms, None),
      Folder(ValidMonths[2], <<"2">>, NumDays - 2, {"Day", "Room No", TotalCol}, NumRooms, None),
      Folder(ValidMonths[2], <<"4">>, NumDays - 2, GeneratedColumns, NumRooms, ZeroTotal),
      Folder(ValidMonths[2], <<"6">>, NumDays - 2, GeneratedColumns, NumRooms, NanTotal),
      Folder(ValidMonths[12], <<"2">>, NumDays + 1, GeneratedColumns \ {"Room No"}, NumRooms, None),
      Folder(ValidMonths[3], <<"2">>, NumDays + 1, GeneratedColumns \ {"12-14"}, NumRooms, None) }

\* the DataFrame pd.read_csv returns for an existing path
ReadCsv(files, path) ==
    LET f == CHOOSE f \in files : path \in FolderFiles(f)
    IN  [columns |-> f.columns, rows |-> f.rows, quirk |-> f.quirk, path |-> path]

\* engineer_features on a DataFrame carried by its columns
EngineerRaises(d) ==
    \/ ~((PeakHours \cup MorningHours \cup NightHours) \subseteq d.columns)
    \/ d.rows < SavgolWindow
Engineered(d) == [d EXCEPT !.columns = @ \cup EngineeredColumns]

\* detect_anomalies_advanced: KeyError when a feature column is not in the
\* DataFrame, ValueError from the scaler on an infinite feature
DetectRaises(d, a) ==
    \/ ~(a.feature_columns \subseteq d.columns)
    \/ d.quirk = ZeroTotal
Detected(d) == [d EXCEPT !.columns = @ \cup DetectedColumns]

\* predict_energy_consumption: KeyError as above, ValueError for a NaN target
PredictRaises(d, a) ==
    \/ ~(a.feature_columns \subseteq d.columns)
    \/ d.quirk = NanTotal
Predicted(d) == [d EXCEPT !.columns = @ \cup PredictedColumns]

\* what predict_energy_consumption leaves in the analyzer: the two regressors
AnalyzerAfterPredict(a, fit) ==
    [a EXCEPT !.models = [k \in (DOMAIN a.models) \cup {"random_forest", "linear_regression"} |->
                             IF k \in {"random_forest", "linear_regression"}
                             THEN [fitted_on |-> fit] ELSE a.models[k]]]

\* generate_insights reads these columns; a missing one is a KeyError
InsightColumns ==
    {TotalCol, "final_anomaly", "anomaly_type", "anomaly_confidence", "Room No",
     "peak_hours_usage", "morning_usage", "night_usage", "usage_variance",
     "peak_hours_ratio"}
InsightsRaises(d) == ~(InsightColumns \subseteq d.columns)

\* what an estimator was fitted on: the feature columns and the number of rows
FitOf(d, cols) == [columns |-> cols, rows |-> d.rows]

\* The requests sent to POST /api/analyze.  has_json: request.get_json() returned
\* an object (a JSON null body gives None).
AnalyzeBody(bed, month, day) ==
    [has_json |-> TRUE, bedType |-> bed, month |-> month, day |-> day]
NoBody == [has_json |-> FALSE, bedType |-> Missing, month |-> Missing, day |-> Missing]
Smarch == <<"S", "m", "a", "r", "c", "h">>
AnalyzeRequests ==
    LET six == StrParam(<<"6">>)
        jan == StrParam(ValidMonths[1])
        feb == StrParam(ValidMonths[2])
        one == IntParam(1)
    IN { NoBody,
         AnalyzeBody(six, jan, one),
         AnalyzeBody(StrParam(<<"3">>), jan, one),
         AnalyzeBody(StrParam(<<"4">>), jan, one),
         AnalyzeBody(StrParam(<<"2">>), feb, one),
         AnalyzeBody(StrParam(<<"4">>), feb, one),
         AnalyzeBody(six, feb, one),
         AnalyzeBody(StrParam(<<"2">>), StrParam(ValidMonths[12]), one),
         AnalyzeBody(six, StrParam(Lower(ValidMonths[1])), StrParam(<<"3", "1">>)),
         AnalyzeBody(six, StrParam(Smarch), one),
         AnalyzeBody(six, jan, IntParam(NumDays + 2)),
         AnalyzeBody(six, jan, StrParam(<<"x">>)),
         AnalyzeBody(StrParam(<<"2">>), StrParam(ValidMonths[3]), one),
         AnalyzeBody(Missing, jan, one),
         AnalyzeBody(six, StrParam(<<>>), one),
         AnalyzeBody(six, jan, StrParam(<<>>)),
         AnalyzeBody(six, jan, IntParam(0)) }

\* the stages of analyze_data, in the order of lines 50-54
PipelineStages ==
    <<"load_data", "engineer_features", "detect_anomalies_advanced",
      "predict_energy_consumption", "generate_insights">>

NoDf == [columns |-> {}, rows |-> 0, quirk |-> None]
NoResp == [status |-> 0, keys |-> {}, error |-> None]
IdleThread ==
    [pc |-> "idle", endpoint |-> None, req |-> NoBody, df |-> NoDf, ran |-> <<>>,
     stored |-> {}, raised |-> None, resp |-> NoResp]

\* a thread takes a request when it has none in hand
Free(t) == threads[t].pc \in {"idle", "done"}

\* the handler returns jsonify(...) with the given keys
Respond(th, status, keys) ==
    [th EXCEPT !.pc = "done", !.resp = [status |-> status, keys |-> keys, error |-> None]]

\* except clauses that differ from analyze_data's: one that returns the error
\* message alone, one that lets the handler go on
AnalyzeExceptPlain(th, at, exc) ==
    [th EXCEPT !.pc = "done", !.raised = at,
               !.resp = [status |-> 500, keys |-> {"error"}, error |-> exc]]
AnalyzeExceptContinue(th, at, exc) == [th EXCEPT !.raised = at]

\* analyze_data's except clause: the exception raised at `at` ends the request
\* with {'error', 'traceback'} and status 500
AnalyzeExcept(th, at, exc) ==
    [th EXCEPT !.pc = "done", !.raised = at,
               !.resp = [status |-> 500, keys |-> {"error", "traceback"}, error |-> exc]]

\* the except clause of save_models, load_models and export_results: {'error'}
PlainExcept(th, at, exc) ==
    [th EXCEPT !.pc = "done", !.raised = at,
               !.resp = [status |-> 500, keys |-> {"error"}, error |-> exc]]

Called(th, name) == [th EXCEPT !.ran = Append(@, name)]

\* `ran`: the stage calls the request has entered; `stored`: the feature list its
\* engineer_features call stored in the analyzer.
\* POST /api/analyze arrives: get_json, the three parameters, the check for a
\* missing one
ReceiveAnalyze(t) ==
    /\ Free(t)
    /\ \E req \in AnalyzeRequests :
          LET th == [IdleThread EXCEPT !.endpoint = "analyze", !.req = req]
          IN  threads' = [threads EXCEPT ![t] =
                 IF ~req.has_json THEN AnalyzeExcept(th, "params", "AttributeError")
                 ELSE IF ~(Truthy(req.bedType) /\ Truthy(req.month) /\ Truthy(req.day))
                      THEN Respond(th, 400, {"error"})
                 ELSE [th EXCEPT !.pc = "load_data"]]
    /\ UNCHANGED <<df, stage, analyzer, fs, year, call>>

\* a load_data that forgets the feature columns before it validates its arguments
LoadDataStageResets(t) ==
    LET th == threads[t]
        day == PyInt(th.req.day)
        r == LoadData(fs.folders, year, th.req.bedType.s, th.req.month.s, day.v)
    IN  /\ th.pc = "load_data"
        /\ threads' = [threads EXCEPT ![t] =
              IF ~day.ok THEN AnalyzeExcept(th, "int", "ValueError")
              ELSE IF r.kind # "DataFrame"
                   THEN AnalyzeExcept(Called(th, "load_data"), "load_data", r.kind)
              ELSE [Called(th, "load_data") EXCEPT
                        !.pc = "engineer_features",
                        !.df = ReadCsv(fs.folders, r.path)]]
        /\ analyzer' = IF day.ok THEN [analyzer EXCEPT !.feature_columns = {}] ELSE analyzer
        /\ UNCHANGED <<df, stage, fs, year, call>>

\* df = analyzer.load_data(bed_type, month, int(day))
LoadDataStage(t) ==
    LET th == threads[t]
        day == PyInt(th.req.day)
        r == LoadData(fs.folders, year, th.req.bedType.s, th.req.month.s, day.v)
    IN  /\ th.pc = "load_data"
        /\ threads' = [threads EXCEPT ![t] =
              IF ~day.ok THEN AnalyzeExcept(th, "int", "ValueError")
              ELSE IF r.kind # "DataFrame"
                   THEN AnalyzeExcept(Called(th, "load_data"), "load_data", r.kind)
              ELSE [Called(th, "load_data") EXCEPT
                        !.pc = "engineer_features",
                        !.df = ReadCsv(fs.folders, r.path)]]
        /\ UNCHANGED <<df, stage, analyzer, fs, year, call>>

\* df = analyzer.engineer_features(df)
EngineerStage(t) ==
    LET th == Called(threads[t], "engineer_features")
    IN  /\ threads[t].pc = "engineer_features"
        /\ IF EngineerRaises(th.df)
           THEN /\ threads' = [threads EXCEPT ![t] =
                       AnalyzeExcept(th, "engineer_features",
                           IF th.df.rows < SavgolWindow THEN "ValueError" ELSE "KeyError")]
                /\ UNCHANGED analyzer
           ELSE /\ threads' = [threads EXCEPT ![t] =
                       [th EXCEPT !.pc = "detect_anomalies_advanced",
                                  !.df = Engineered(th.df),
                                  !.stored = Engineered(th.df).columns
                                                 \ {"Day", "Room No", TotalCol}]]
                /\ analyzer' = [analyzer EXCEPT !.feature_columns =
                       Engineered(th.df).columns \ {"Day", "Room No", TotalCol}]
        /\ UNCHANGED <<df, stage, fs, year, call>>

\* df = analyzer.detect_anomalies_advanced(df)
DetectStage(t) ==
    LET th == Called(threads[t], "detect_anomalies_advanced")
    IN  /\ threads[t].pc = "detect_anomalies_advanced"
        /\ IF DetectRaises(th.df, analyzer)
           THEN /\ threads' = [threads EXCEPT ![t] =
                       AnalyzeExcept(th, "detect_anomalies_advanced",
                           IF th.df.quirk = ZeroTotal THEN "ValueError" ELSE "KeyError")]
                /\ UNCHANGED analyzer
           ELSE /\ threads' = [threads EXCEPT ![t] =
                       [th EXCEPT !.pc = "predict_energy_consumption",
                                  !.df = Detected(th.df)]]
                /\ analyzer' = AnalyzerAfterDetect(analyzer,
                                   FitOf(th.df, analyzer.feature_columns), Opaque)
        /\ UNCHANGED <<df, stage, fs, year, call>>

\* df = analyzer.predict_energy_consumption(df)
PredictStage(t) ==
    LET th == Called(threads[t], "predict_energy_consumption")
    IN  /\ threads[t].pc = "predict_energy_consumption"
        /\ IF PredictRaises(th.df, analyzer)
           THEN /\ threads' = [threads EXCEPT ![t] =
                       AnalyzeExcept(th, "predict_energy_consumption",
                           IF th.df.quirk = NanTotal THEN "ValueError" ELSE "KeyError")]
                /\ UNCHANGED analyzer
           ELSE /\ threads' = [threads EXCEPT ![t] =
                       [th EXCEPT !.pc = "generate_insights",
                                  !.df = Predicted(th.df)]]
                /\ analyzer' = AnalyzerAfterPredict(analyzer,
                                   FitOf(th.df, analyzer.feature_columns \ DetectedColumns))
        /\ UNCHANGED <<df, stage, fs, year, call>>

\* insights = analyzer.generate_insights(df), then the success response
InsightsStage(t) ==
    LET th == Called(threads[t], "generate_insights")
    IN  /\ threads[t].pc = "generate_insights"
        /\ threads' = [threads EXCEPT ![t] =
              IF InsightsRaises(th.df)
              THEN AnalyzeExcept(th, "generate_insights", "KeyError")
              ELSE Respond(th, 200, {"success", "data", "insights", "summary"})]
        /\ UNCHANGED <<df, stage, analyzer, fs, year, call>>

\* GET /api/available-data: os.listdir(base_dir) raises when the data directory
\* does not exist
AvailableData(t) ==
    /\ Free(t)
    /\ LET th == [IdleThread EXCEPT !.endpoint = "available-data"]
       IN  threads' = [threads EXCEPT ![t] =
              IF ~fs.data_dir THEN AnalyzeExcept(th, "listdir", "FileNotFoundError")
              ELSE Respond(th, 200, {"success", "available_data"})]
    /\ UNCHANGED <<df, stage, analyzer, fs, year, call>>

\* GET /api/health
HealthCheck(t) ==
    /\ Free(t)
    /\ threads' = [threads EXCEPT ![t] =
          Respond([IdleThread EXCEPT !.endpoint = "health"], 200,
                  {"status", "service", "version"})]
    /\ UNCHANGED <<df, stage, analyzer, fs, year, call>>

\* analyzer.save_models: one file per model held, then the scaler, the thresholds
\* and the feature columns; model files already there stay
SavedModels(a, dir) ==
    LET old == IF dir.saved THEN dir.models ELSE <<>>
    IN  [saved |-> TRUE,
         models |-> [k \in (DOMAIN old) \cup (DOMAIN a.models) |->
                        IF k \in DOMAIN a.models THEN a.models[k] ELSE old[k]],
         scaler |-> a.scaler,
         anomaly_thresholds |-> a.anomaly_thresholds,
         feature_columns |-> a.feature_columns]

\* analyzer.load_models: each model file found replaces the model held; scaler,
\* thresholds and feature columns are replaced when their files are found
LoadedModels(a, dir) ==
    IF ~dir.saved THEN a
    ELSE [scaler |-> dir.scaler,
          models |-> [k \in (DOMAIN a.models) \cup (DOMAIN dir.models) |->
                         IF k \in DOMAIN dir.models THEN dir.models[k] ELSE a.models[k]],
          feature_columns |-> dir.feature_columns,
          anomaly_thresholds |-> dir.anomaly_thresholds]

\* POST /api/models/save
SaveModels(t) ==
    /\ Free(t)
    /\ \E has_json \in BOOLEAN :
          LET th == [IdleThread EXCEPT !.endpoint = "models/save", !.req.has_json = has_json]
          IN  IF ~has_json
              THEN /\ threads' = [threads EXCEPT ![t] =
                          PlainExcept(th, "params", "AttributeError")]
                   /\ UNCHANGED fs
              ELSE /\ threads' = [threads EXCEPT ![t] =
                          Respond(th, 200, {"success", "message"})]
                   /\ fs' = [fs EXCEPT !.models = SavedModels(analyzer, fs.models)]
    /\ UNCHANGED <<df, stage, analyzer, year, call>>

\* POST /api/models/load
LoadModels(t) ==
    /\ Free(t)
    /\ \E has_json \in BOOLEAN :
          LET th == [IdleThread EXCEPT !.endpoint = "models/load", !.req.has_json = has_json]
          IN  IF ~has_json
              THEN /\ threads' = [threads EXCEPT ![t] =
                          PlainExcept(th, "params", "AttributeError")]
                   /\ UNCHANGED analyzer
              ELSE /\ threads' = [threads EXCEPT ![t] =
                          Respond(th, 200, {"success", "message"})]
                   /\ analyzer' = LoadedModels(analyzer, fs.models)
    /\ UNCHANGED <<df, stage, fs, year, call>>

\* The requests sent to POST /api/export/<format>.  data: "records" for a list of
\* row objects, "scalar" for a number, which pd.DataFrame refuses.
ExportRequests ==
    { [format |-> "csv", has_json |-> TRUE, data |-> "records"],
      [format |-> "csv", has_json |-> TRUE, data |-> "scalar"],
      [format |-> "csv", has_json |-> FALSE, data |-> None],
      [format |-> "json", has_json |-> TRUE, data |-> "records"],
      [format |-> "xml", has_json |-> TRUE, data |-> "records"] }

\* POST /api/export/<format>
ExportResults(t) ==
    /\ Free(t)
    /\ \E req \in ExportRequests :
          LET th == [IdleThread EXCEPT !.endpoint = "export", !.req = req]
          IN  threads' = [threads EXCEPT ![t] =
                 IF ~req.has_json THEN PlainExcept(th, "params", "AttributeError")
                 ELSE IF req.format = "csv"
                      THEN IF req.data = "scalar"
                           THEN PlainExcept(th, "DataFrame", "ValueError")
                           ELSE Respond(th, 200, {"success", "data", "filename"})
                 ELSE IF req.format = "json"
                      THEN Respond(th, 200, {"success", "data", "filename"})
                 ELSE Respond(th, 400, {"error"})]
    /\ UNCHANGED <<df, stage, analyzer, fs, year, call>>

\* The server as started: a fresh analyzer, every thread waiting, the data
\* directory in place or missing, no models directory.
InitServer(n) ==
    /\ threads = [t \in 1..n |-> IdleThread]
    /\ analyzer = NewAnalyzer
    /\ fs \in { [data_dir |-> TRUE, folders |-> ServerFolders, models |-> NoModelsDir], NoFs }
    /\ year \in {2026}
    /\ df = <<>> /\ stage = "serving" /\ call = NoCall

\* The threaded server under the dashboard's requests: analysis, listing, health,
\* export and model loading, NumThreads requests in hand at once.
Init == InitServer(NumThreads)

Next ==
    \/ \E t \in DOMAIN threads : ReceiveAnalyze(t)
    \/ \E t \in DOMAIN threads : LoadDataStage(t)
    \/ \E t \in DOMAIN threads : EngineerStage(t)
    \/ \E t \in DOMAIN threads : DetectStage(t)
    \/ \E t \in DOMAIN threads : PredictStage(t)
    \/ \E t \in DOMAIN threads : InsightsStage(t)
    \/ \E t \in DOMAIN threads : AvailableData(t)
    \/ \E t \in DOMAIN threads : HealthCheck(t)
    \/ \E t \in DOMAIN threads : LoadModels(t)
    \/ \E t \in DOMAIN threads : ExportResults(t)

Spec == Init /\ [][Next]_vars

\* Every endpoint, model saving included, one request in hand at a time.
InitEndpoints == InitServer(1)

NextEndpoints ==
    \/ \E t \in DOMAIN threads : ReceiveAnalyze(t)
    \/ \E t \in DOMAIN threads : LoadDataStage(t)
    \/ \E t \in DOMAIN threads : EngineerStage(t)
    \/ \E t \in DOMAIN threads : DetectStage(t)
    \/ \E t \in DOMAIN threads : PredictStage(t)
    \/ \E t \in DOMAIN threads : InsightsStage(t)
    \/ \E t \in DOMAIN threads : AvailableData(t)
    \/ \E t \in DOMAIN threads : HealthCheck(t)
    \/ \E t \in DOMAIN threads : SaveModels(t)
    \/ \E t \in DOMAIN threads : LoadModels(t)
    \/ \E t \in DOMAIN threads : ExportResults(t)

SpecEndpoints == InitEndpoints /\ [][NextEndpoints]_vars

(***************************************************************************)
(* Properties of the server.                                               *)
(***************************************************************************)
\* VALID_BED_TYPES of config.py
ValidBedTypes == {<<"2">>, <<"4">>, <<"6">>}

\* the request in hand of thread t names a bed type outside {2, 4, 6}
InvalidBedRequest(t) ==
    /\ threads[t].endpoint = "analyze"
    /\ Truthy(threads[t].req.bedType)
    /\ threads[t].req.bedType.s \notin ValidBedTypes

\* C6: a request to POST /api/analyze for a bed type outside {2, 4, 6} is rejected
\* by bed-type validation: no data is loaded for it, no stage after load_data runs
\* on it, and it does not end in a success response.
C6_InvalidBedTypeRejected ==
    \A t \in DOMAIN threads :
        InvalidBedRequest(t) =>
            /\ threads[t].df.columns = {}
            /\ Len(threads[t].ran) <= 1
            /\ threads[t].resp.status # 200

\* the request in hand of thread t raised an exception
Raised(t) == threads[t].raised # None

\* C8 as stated: at every endpoint, an exception raised while handling a request
\* yields a JSON error response with both an error message and a stack trace.
C8_ErrorAndTracebackEverywhere ==
    \A t \in DOMAIN threads :
        Raised(t) =>
            /\ threads[t].pc = "done"
            /\ threads[t].resp.status = 500
            /\ {"error", "traceback"} \subseteq threads[t].resp.keys

\* C8: at every endpoint, an exception raised while handling a request yields a
\* JSON error response (status 500) with an error message, never an unhandled
\* exception; the stack trace is in the response exactly at /api/analyze and
\* /api/available-data.
C8_ErrorEverywhereTracebackAtTwo ==
    \A t \in DOMAIN threads :
        Raised(t) =>
            /\ threads[t].pc = "done"
            /\ threads[t].resp.status = 500
            /\ "error" \in threads[t].resp.keys
            /\ "traceback" \in threads[t].resp.keys
                  <=> threads[t].endpoint \in {"analyze", "available-data"}

\* C8 witness: /api/models/save raised on a body without JSON and answered with
\* the error message alone.
C8_Witness ==
    \E t \in DOMAIN threads :
        /\ threads[t].endpoint = "models/save" /\ Raised(t)
        /\ threads[t].resp.status = 500 /\ threads[t].resp.keys = {"error"}

IsStage(name) == name \in Range(PipelineStages)

\* C9: errors are terminal for a request to POST /api/analyze: the stages run in
\* the order load_data, engineer_features, detect_anomalies_advanced,
\* predict_energy_consumption, generate_insights, each at most once; when a stage
\* raises it is the last stage run and the request has ended with an error
\* response, not a success response.
C9_ErrorsAreTerminal ==
    \A t \in DOMAIN threads :
        threads[t].endpoint = "analyze" =>
            /\ Len(threads[t].ran) <= Len(PipelineStages)
            /\ \A i \in DOMAIN threads[t].ran : threads[t].ran[i] = PipelineStages[i]
            /\ (Raised(t) /\ IsStage(threads[t].raised)) =>
                  /\ threads[t].ran[Len(threads[t].ran)] = threads[t].raised
                  /\ threads[t].pc = "done"
                  /\ threads[t].resp.status = 500
                  /\ "error" \in threads[t].resp.keys
                  /\ "success" \notin threads[t].resp.keys

\* C9 witness: detect_anomalies_advanced raised after two stages ran; the request
\* ended there with an error response.
C9_Witness ==
    \E t \in DOMAIN threads :
        /\ threads[t].raised = "detect_anomalies_advanced"
        /\ threads[t].ran = SubSeq(PipelineStages, 1, 3)
        /\ threads[t].pc = "done" /\ threads[t].resp.status = 500

\* the threads between two stages of an analysis: load_data has returned, the
\* response is not built yet
Analysing == {t \in DOMAIN threads : threads[t].pc \in Range(Tail(PipelineStages))}

\* C10: at most one /api/analyze request at a time is executing pipeline stages
\* against the shared analyzer.
C10_OneAnalysisAtATime == Cardinality(Analysing) <= 1

(***************************************************************************)
(* Properties of the success response of POST /api/analyze (SpecAnalysis). *)
(***************************************************************************)
\* C11: every successful response of POST /api/analyze has success = true and the
\* keys data, insights and summary; summary.total_rooms is the number of records in
\* data, and summary.anomaly_count is the number of records with final_anomaly = 1
\* and equals insights.summary.anomaly_count.
C11_SummaryMatchesData ==
    stage = "responded" =>
        LET r == call.response IN
        /\ DOMAIN r = {"success", "data", "insights", "summary"}
        /\ r.success = TRUE
        /\ r.summary.total_rooms = Len(r.data)
        /\ r.summary.anomaly_count =
              Cardinality({i \in 1..Len(r.data) : r.data[i]["final_anomaly"] = 1})
        /\ r.summary.anomaly_count = r.insights.summary.anomaly_count

\* C11 witness: a response over a dataset with an anomalous room and a room that
\* only the isolation forest flagged.
C11_Witness ==
    /\ stage = "responded"
    /\ call.response.summary.anomaly_count >= 1
    /\ \E i \in 1..Len(call.response.data) :
          /\ call.response.data[i]["iso_forest_anomaly"] = 0 - 1
          /\ call.response.data[i]["final_anomaly"] = 0

(***************************************************************************)
(* File names, character by character: the name load_data builds, the name *)
(* the generator writes, and the day get_available_data reads back.        *)
(***************************************************************************)
\* str(n) for n >= 0
RECURSIVE FormatInt(_)
FormatInt(n) ==
    IF n < 10 THEN <<Digits[n + 1]>>
    ELSE FormatInt(n \div 10) \o <<Digits[(n % 10) + 1]>>

BedEnergyDay == <<"b", "e", "d", "_", "e", "n", "e", "r", "g", "y", "_", "c", "o", "n", "s", "u", "m", "p", "t", "i", "o", "n", "_", "d", "a", "y", "_">>
DotCsv == <<".", "c", "s", "v">>
DayMarker == <<"d", "a", "y", "_">>

\* a file name that leaves the word "day" out of the name
FileNameNoDayWord(bed, abbr, day) ==
    abbr \o <<"_">> \o bed \o SubSeq(BedEnergyDay, 1, Len(BedEnergyDay) - Len(DayMarker))
         \o FormatInt(day) \o DotCsv

\* load_data: filename = f"{month_abbr}_{bed_type}bed_energy_consumption_day_{day}.csv"
FileName(bed, abbr, day) ==
    abbr \o <<"_">> \o bed \o BedEnergyDay \o FormatInt(day) \o DotCsv

\* 6bedJan.py: month = "Jan"; daily_csv_filename = f"{month}_6bed_energy_consumption_day_{day}.csv"
GeneratorMonth == <<"J", "a", "n">>
GeneratorFileName(day) ==
    GeneratorMonth \o <<"_", "6">> \o BedEnergyDay \o FormatInt(day) \o DotCsv

\* the first place at or after `from` where sep occurs in t, 0 if none
Find(t, sep, from) ==
    LET at == {i \in from..(Len(t) - Len(sep) + 1) : SubSeq(t, i, i + Len(sep) - 1) = sep}
    IN  IF at = {} THEN 0 ELSE MinOf(at)

\* t.split(sep)[0] and t.split(sep)[1] (the latter asked only when sep occurs)
SplitFirst(t, sep) ==
    IF Find(t, sep, 1) = 0 THEN t ELSE SubSeq(t, 1, Find(t, sep, 1) - 1)
SplitSecond(t, sep) ==
    LET start == Find(t, sep, 1) + Len(sep)
        next == Find(t, sep, start)
    IN  SubSeq(t, start, IF next = 0 THEN Len(t) ELSE next - 1)

EndsWith(t, suffix) ==
    Len(t) >= Len(suffix) /\ SubSeq(t, Len(t) - Len(suffix) + 1, Len(t)) = suffix

\* get_available_data: the day read out of a file name; listed is FALSE for a name
\* that is skipped (no .csv ending, no 'day_', or a day that is not a number)
ListedDay(file) ==
    IF ~EndsWith(file, DotCsv) \/ Find(file, DayMarker, 1) = 0
    THEN [listed |-> FALSE, day |-> 0]
    ELSE LET day_str == SplitFirst(SplitSecond(file, DayMarker), <<".">>)
             n == PyInt(StrParam(day_str))
         IN  [listed |-> n.ok, day |-> n.v]

\* the days callers ask for: both sides of every change in the number of digits,
\* and the ends of the months
NameDays == {1, 9, 10, 19, 20} \cup (28..MaxDay)

NotListed == [listed |-> FALSE, day |-> 0]

InitNames ==
    /\ call = NoCall
    /\ year \in Years
    /\ fs = NoFs /\ analyzer = NewAnalyzer
    /\ df = <<>> /\ stage = "names" /\ threads = NoThreads

\* load_data, for a month and day that pass validation, builds the name of the
\* file it opens
LoadDataOpens ==
    /\ call = NoCall
    /\ \E bed \in BedInputs, month \in MonthInputs, day \in NameDays :
          /\ ValidateMonth(month).ok
          /\ ValidateDay(year, ValidateMonth(month).month, day)
          /\ call' = [entry |-> "load_data", bed |-> bed, month |-> month, day |-> day,
                      file |-> FileName(bed, MonthAbbr(ValidateMonth(month).month), day),
                      parsed |-> NotListed]
    /\ stage' = "named"
    /\ UNCHANGED <<df, analyzer, fs, year, threads>>

\* the generator script writes the CSV of one day
GeneratorWrites ==
    /\ call = NoCall
    /\ \E day \in 1..NumDays :
          call' = [entry |-> "6bedJan", bed |-> <<"6">>, month |-> ValidMonths[1], day |-> day,
                   file |-> GeneratorFileName(day), parsed |-> NotListed]
    /\ stage' = "named"
    /\ UNCHANGED <<df, analyzer, fs, year, threads>>

\* get_available_data reads the day out of the name of the file
GetAvailableDataParses ==
    /\ stage = "named"
    /\ call' = [call EXCEPT !.parsed = ListedDay(call.file)]
    /\ stage' = "listed"
    /\ UNCHANGED <<df, analyzer, fs, year, threads>>

NextNames == LoadDataOpens \/ GeneratorWrites \/ GetAvailableDataParses

SpecNames == InitNames /\ [][NextNames]_vars

GenRooms == 2
GenDays == 2

\* f"{n:02d}"
Pad2(n) == IF n < 10 THEN <<"0">> \o FormatInt(n) ELSE FormatInt(n)

\* time_intervals = [f"{i:02d}-{i + 2:02d}" for i in range(0, 24, 2)]: the k-th label
IntervalLabel(k) == Pad2(2 * (k - 1)) \o <<"-">> \o Pad2(2 * (k - 1) + 2)

\* the characters of the column names TimeIntervals
TimeIntervalChars ==
    <<<<"0", "0", "-", "0", "2">>,
      <<"0", "2", "-", "0", "4">>,
      <<"0", "4", "-", "0", "6">>,
      <<"0", "6", "-", "0", "8">>,
      <<"0", "8", "-", "1", "0">>,
      <<"1", "0", "-", "1", "2">>,
      <<"1", "2", "-", "1", "4">>,
      <<"1", "4", "-", "1", "6">>,
      <<"1", "6", "-", "1", "8">>,
      <<"1", "8", "-", "2", "0">>,
      <<"2", "0", "-", "2", "2">>,
      <<"2", "2", "-", "2", "4">>>>

\* test_data_integrity: [f"{i*2:02d}-{(i+1)*2:02d}" for i in range(12)]
ExpectedIntervalChars == [k \in 1..12 |-> Pad2((k - 1) * 2) \o <<"-">> \o Pad2(k * 2)]

\* generate_energy_usage: the uniform range of the interval starting at hour i,
\* in tenths
UsageRange(i) ==
    IF i < 8 THEN [lo |-> 2, hi |-> 6]
    ELSE IF i < 12 THEN [lo |-> 6, hi |-> 15]
    ELSE IF i < 18 THEN [lo |-> 3, hi |-> 12]
    ELSE [lo |-> 12, hi |-> 30]

\* the draws of the model: the evening readings at the low or at the high end of
\* their range, and so the readings of the rest of the day
GeneratedUsages ==
    { [c \in TimeColumnSet |->
          LET k == CHOOSE k \in DOMAIN TimeIntervals : TimeIntervals[k] = c
              r == UsageRange(2 * (k - 1))
          IN  IF 2 * (k - 1) >= 18 THEN (IF draw[1] THEN r.hi ELSE r.lo)
              ELSE (IF draw[2] THEN r.hi ELSE r.lo)] : draw \in BOOLEAN \X BOOLEAN }

InitGenerator ==
    /\ df = <<>>
    /\ call = [entry |-> "6bedJan", day |-> 1, written |-> <<>>, file |-> <<>>]
    /\ stage = "generating"
    /\ fs = NoFs /\ year = 0 /\ analyzer = NewAnalyzer /\ threads = NoThreads

\* data.append([day, room_no] + energy_usage + [total_energy])
AppendRecord ==
    /\ call.day <= GenDays /\ Len(df) < GenRooms
    /\ \E usage \in GeneratedUsages :
          df' = Append(df, GenRow(call.day, Len(df) + 1, usage))
    /\ UNCHANGED <<stage, call, analyzer, fs, year, threads>>

\* df.to_csv(daily_csv_filename): the day's records are written, the next day begins
WriteDailyCsv ==
    /\ call.day <= GenDays /\ Len(df) = GenRooms
    /\ call' = [call EXCEPT !.day = @ + 1, !.written = df, !.file = GeneratorFileName(call.day)]
    /\ df' = <<>>
    /\ stage' = IF call.day = GenDays THEN "generated" ELSE stage
    /\ UNCHANGED <<analyzer, fs, year, threads>>

NextGenerator == AppendRecord \/ WriteDailyCsv

SpecGenerator == InitGenerator /\ [][NextGenerator]_vars

\* test_data_integrity on a CSV file: the expected columns are there and no total
\* is negative
ExpectedColumns == {"Day", "Room No", TotalCol} \cup TimeColumnSet
DataIntegrityOk(d) ==
    /\ ExpectedColumns \subseteq Columns(d)
    /\ MinOf(Range(Column(d, TotalCol))) >= 0

\* C13: every record the generator writes has the columns Day, Room No, the 12
\* interval columns 00-02, 02-04, ..., 22-24 (each two hours, each starting where
\* the one before ends, from 0 to 24) and Total Energy (kWh), nothing else; its
\* total is the sum of its 12 readings and is not negative; and these are the
\* columns test_data_integrity requires.
C13_GeneratedRecord ==
    /\ \A k \in 1..12 : /\ IntervalLabel(k) = TimeIntervalChars[k]
                        /\ IntervalLabel(k) = ExpectedIntervalChars[k]
                        /\ PyInt(StrParam(SubSeq(IntervalLabel(k), 1, 2))).v = 2 * (k - 1)
                        /\ PyInt(StrParam(SubSeq(IntervalLabel(k), 4, 5))).v = 2 * k
    /\ Len(TimeIntervals) = 12 /\ Cardinality(TimeColumnSet) = 12
    /\ \A i \in 1..Len(call.written) :
          LET r == call.written[i] IN
          /\ DOMAIN r = {"Day", "Room No", TotalCol} \cup TimeColumnSet
          /\ r["Day"] = call.day - 1 /\ r["Room No"] = i
          /\ r[TotalCol] = SumOver(r, TimeColumnSet)
          /\ r[TotalCol] >= 0
    /\ call.written # <<>> => DataIntegrityOk(call.written)

\* C13 witness: a day's file is written; one room drew the low end of every range,
\* another the high end.
C13_Witness ==
    /\ call.written # <<>>
    /\ \E i, j \in 1..Len(call.written) :
          /\ call.written[i][TotalCol] < call.written[j][TotalCol]
          /\ call.written[i][TotalCol] = SumOver(call.written[i], TimeColumnSet)
          /\ call.written[i]["22-24"] = 12 /\ call.written[j]["22-24"] = 30

(***************************************************************************)
(* tests/validation.py: the launch report.                                 *)
(***************************************************************************)
\* tests, in the order of the list in generate_launch_report
LaunchTests == <<"ML Model Accuracy", "API Performance", "Data Integrity", "AWS Deployment">>

\* what a call of a test function does
TestOutcomes == {"returns True", "returns False", "raises"}

\* a loop body that counts a test that raised as ready
TestResultCrashReady(outcome) == outcome # "returns False"

\* results[test_name] = test_func(), or False when the call raised
TestResult(outcome) == outcome = "returns True"

NotExited == 0 - 1

InitValidation ==
    /\ call = [entry |-> "generate_launch_report", outcomes |-> <<>>, results |-> <<>>,
               returned |-> FALSE, success |-> FALSE, exit |-> NotExited]
    /\ stage = "tests"
    /\ df = <<>> /\ fs = NoFs /\ year = 0 /\ analyzer = NewAnalyzer /\ threads = NoThreads

\* one turn of the loop over the tests
RunTest ==
    /\ stage = "tests" /\ Len(call.results) < Len(LaunchTests)
    /\ \E outcome \in TestOutcomes :
          call' = [call EXCEPT !.outcomes = Append(@, outcome),
                               !.results = Append(@, TestResult(outcome))]
    /\ UNCHANGED <<df, stage, analyzer, fs, year, threads>>

\* passed = sum(results.values()); total = len(results); return passed == total
ReturnReport ==
    /\ stage = "tests" /\ Len(call.results) = Len(LaunchTests)
    /\ call' = [call EXCEPT !.returned = TRUE,
                            !.success = (Cardinality({i \in DOMAIN call.results : call.results[i]})
                                            = Len(call.results))]
    /\ stage' = "reported"
    /\ UNCHANGED <<df, analyzer, fs, year, threads>>

\* __main__: sys.exit(0) if success else sys.exit(1)
ExitValidation ==
    /\ stage = "reported"
    /\ call' = [call EXCEPT !.exit = IF call.success THEN 0 ELSE 1]
    /\ stage' = "exited"
    /\ UNCHANGED <<df, analyzer, fs, year, threads>>

NextValidation == RunTest \/ ReturnReport \/ ExitValidation

SpecValidation == InitValidation /\ [][NextValidation]_vars

\* C14: generate_launch_report runs the four tests in order and returns True if and
\* only if every one returned True; a test that raises is recorded as not ready and
\* the tests after it still run; the script exits with status 0 exactly when the
\* report is True and with 1 otherwise.
C14_LaunchReport ==
    /\ Len(call.outcomes) = Len(call.results) /\ Len(call.results) <= Len(LaunchTests)
    /\ \A i \in DOMAIN call.results : call.results[i] <=> call.outcomes[i] = "returns True"
    /\ call.returned =>
          /\ Len(call.outcomes) = Len(LaunchTests)
          /\ call.success <=> \A i \in DOMAIN call.outcomes : call.outcomes[i] = "returns True"
    /\ stage = "exited" =>
          /\ call.returned
          /\ call.exit = 0 <=> call.success
          /\ call.exit = 1 <=> ~call.success

\* C14 witness: the second test raised, the two after it ran, and the script exited
\* with status 1.
C14_Witness ==
    /\ stage = "exited" /\ call.exit = 1
    /\ call.outcomes = <<"returns True", "raises", "returns True", "returns True">>
    /\ call.results = <<TRUE, FALSE, TRUE, TRUE>>

(***************************************************************************)
(* The scripts that run the pipeline: ml_engine.main, main.test_ml_engine  *)
(* and validation.test_ml_accuracy, each on an analyzer of its own.        *)
(***************************************************************************)
\* a script that detects before it engineers
ScriptStagesDetectFirst(entry) ==
    IF entry = "test_ml_engine"
    THEN <<"sample_data", "detect_anomalies_advanced", "engineer_features", "generate_insights">>
    ELSE <<"load_data", "detect_anomalies_advanced", "engineer_features",
           "predict_energy_consumption", "generate_insights">>

\* the stage calls of each script, in the order of its statements;
\* test_ml_engine builds its DataFrame itself and does not predict
ScriptStages(entry) ==
    IF entry = "test_ml_engine"
    THEN <<"sample_data", "engineer_features", "detect_anomalies_advanced", "generate_insights">>
    ELSE PipelineStages

\* the statement after the call of `name`; "end" after the last
StageAfter(entry, name) ==
    LET stages == ScriptStages(entry)
        i == CHOOSE i \in DOMAIN stages : stages[i] = name
    IN  IF i = Len(stages) THEN "end" ELSE stages[i + 1]

Case(bed, month, day) == [bed |-> bed, month |-> month, day |-> day]

\* test_cases of test_ml_accuracy
AccuracyCases ==
    << Case(<<"2">>, ValidMonths[1], 1), Case(<<"4">>, ValidMonths[1], 1),
       Case(<<"6">>, ValidMonths[1], 1), Case(<<"2">>, ValidMonths[4], 1),
       Case(<<"4">>, ValidMonths[4], 1) >>

\* what the user of ml_engine.main types, past the checks of bed type and day
MainInputs ==
    { Case(<<"6">>, ValidMonths[1], 1), Case(<<"4">>, ValidMonths[1], 1),
      Case(<<"2">>, ValidMonths[2], 1), Case(<<"4">>, ValidMonths[2], 1),
      Case(<<"6">>, ValidMonths[2], 1), Case(<<"2">>, ValidMonths[12], 1),
      Case(<<"2">>, ValidMonths[3], 1), Case(<<"6">>, ValidMonths[1], NumDays + 2),
      Case(<<"6">>, Smarch, 1) }

\* a data directory holding a generated folder for each test case
CaseFolders ==
    { Folder(AccuracyCases[i].month, AccuracyCases[i].bed, NumDays, GeneratedColumns,
             NumRooms, None) : i \in DOMAIN AccuracyCases }

\* the DataFrame test_ml_engine builds: 15 rooms, the generated columns
SampleData == [columns |-> GeneratedColumns, rows |-> 15, quirk |-> None, path |-> None]

NewScript(entry, cases) ==
    [entry |-> entry, cases |-> cases, case |-> 1, ran |-> <<>>, raised |-> None,
     stored |-> {}]

InitScripts ==
    /\ analyzer = NewAnalyzer
    /\ threads = NoThreads
    /\ year \in {2026}
    /\ df = NoDf
    /\ \/ /\ call \in {NewScript("main", <<c>>) : c \in MainInputs}
          /\ fs = [data_dir |-> TRUE, folders |-> ServerFolders, models |-> NoModelsDir]
          /\ stage = "load_data"
       \/ /\ call = NewScript("test_ml_accuracy", AccuracyCases)
          /\ fs \in { [data_dir |-> TRUE, folders |-> fo, models |-> NoModelsDir] :
                         fo \in {CaseFolders, ServerFolders} }
          /\ stage = "load_data"
       \/ /\ call = NewScript("test_ml_engine", <<>>)
          /\ fs = NoFs
          /\ stage = "sample_data"

\* the stage call is entered; the first stage starts on a new dataset
ScriptCalled(c, name) ==
    IF name \in {"load_data", "sample_data"}
    THEN [c EXCEPT !.ran = <<name>>, !.stored = {}]
    ELSE [c EXCEPT !.ran = Append(@, name)]

\* the call raised: main ends with the exception, the two tests report it and end
ScriptRaised(name, exc) ==
    /\ call' = [ScriptCalled(call, name) EXCEPT !.raised = exc]
    /\ stage' = "end"

\* df = analyzer.load_data(bed_type, month, day)
ScriptLoadData ==
    LET c == call.cases[call.case]
        r == LoadData(fs.folders, year, c.bed, c.month, c.day)
    IN  /\ stage = "load_data"
        /\ IF r.kind # "DataFrame"
           THEN ScriptRaised("load_data", r.kind) /\ UNCHANGED df
           ELSE /\ call' = ScriptCalled(call, "load_data")
                /\ df' = ReadCsv(fs.folders, r.path)
                /\ stage' = StageAfter(call.entry, "load_data")
        /\ UNCHANGED <<analyzer, fs, year, threads>>

\* df = pd.DataFrame(sample_data)
ScriptSampleData ==
    /\ stage = "sample_data"
    /\ call' = ScriptCalled(call, "sample_data")
    /\ df' = SampleData
    /\ stage' = StageAfter(call.entry, "sample_data")
    /\ UNCHANGED <<analyzer, fs, year, threads>>

\* df = analyzer.engineer_features(df)
ScriptEngineer ==
    /\ stage = "engineer_features"
    /\ IF EngineerRaises(df)
       THEN ScriptRaised("engineer_features", "KeyError") /\ UNCHANGED <<df, analyzer>>
       ELSE /\ df' = Engineered(df)
            /\ analyzer' = [analyzer EXCEPT !.feature_columns =
                               Engineered(df).columns \ {"Day", "Room No", TotalCol}]
            /\ call' = [ScriptCalled(call, "engineer_features") EXCEPT
                           !.stored = Engineered(df).columns \ {"Day", "Room No", TotalCol}]
            /\ stage' = StageAfter(call.entry, "engineer_features")
    /\ UNCHANGED <<fs, year, threads>>

\* df = analyzer.detect_anomalies_advanced(df)
ScriptDetect ==
    /\ stage = "detect_anomalies_advanced"
    /\ IF DetectRaises(df, analyzer)
       THEN /\ ScriptRaised("detect_anomalies_advanced",
                            IF df.quirk = ZeroTotal THEN "ValueError" ELSE "KeyError")
            /\ UNCHANGED <<df, analyzer>>
       ELSE /\ df' = Detected(df)
            /\ analyzer' = AnalyzerAfterDetect(analyzer, FitOf(df, analyzer.feature_columns), Opaque)
            /\ call' = ScriptCalled(call, "detect_anomalies_advanced")
            /\ stage' = StageAfter(call.entry, "detect_anomalies_advanced")
    /\ UNCHANGED <<fs, year, threads>>

\* df = analyzer.predict_energy_consumption(df)
ScriptPredict ==
    /\ stage = "predict_energy_consumption"
    /\ IF PredictRaises(df, analyzer)
       THEN /\ ScriptRaised("predict_energy_consumption",
                            IF df.quirk = NanTotal THEN "ValueError" ELSE "KeyError")
            /\ UNCHANGED <<df, analyzer>>
       ELSE /\ df' = Predicted(df)
            /\ analyzer' = AnalyzerAfterPredict(analyzer,
                               FitOf(df, analyzer.feature_columns \ DetectedColumns))
            /\ call' = ScriptCalled(call, "predict_energy_consumption")
            /\ stage' = StageAfter(call.entry, "predict_energy_consumption")
    /\ UNCHANGED <<fs, year, threads>>

\* insights = analyzer.generate_insights(df); test_ml_accuracy then takes its next
\* test case, on the same analyzer
ScriptInsights ==
    /\ stage = "generate_insights"
    /\ IF InsightsRaises(df)
       THEN ScriptRaised("generate_insights", "KeyError")
       ELSE IF call.case < Len(call.cases)
            THEN /\ call' = [ScriptCalled(call, "generate_insights") EXCEPT !.case = @ + 1]
                 /\ stage' = ScriptStages(call.entry)[1]
            ELSE /\ call' = ScriptCalled(call, "generate_insights")
                 /\ stage' = "end"
    /\ UNCHANGED <<df, analyzer, fs, year, threads>>

\* Every entry point that runs the pipeline: the threaded server and the scripts.
InitEntryPoints == Init \/ InitScripts

NextEntryPoints ==
    \/ \E t \in DOMAIN threads : ReceiveAnalyze(t)
    \/ \E t \in DOMAIN threads : LoadDataStage(t)
    \/ \E t \in DOMAIN threads : EngineerStage(t)
    \/ \E t \in DOMAIN threads : DetectStage(t)
    \/ \E t \in DOMAIN threads : PredictStage(t)
    \/ \E t \in DOMAIN threads : InsightsStage(t)
    \/ \E t \in DOMAIN threads : LoadModels(t)
    \/ ScriptLoadData
    \/ ScriptSampleData
    \/ ScriptEngineer
    \/ ScriptDetect
    \/ ScriptPredict
    \/ ScriptInsights

SpecEntryPoints == InitEntryPoints /\ [][NextEntryPoints]_vars

\* the place of a stage in the pipeline
StageRank(name) ==
    CASE name \in {"load_data", "sample_data"} -> 1
      [] name = "engineer_features" -> 2
      [] name = "detect_anomalies_advanced" -> 3
      [] name = "predict_energy_consumption" -> 4
      [] name = "generate_insights" -> 5

\* the stage calls made on one dataset are in pipeline order; detection is entered
\* only after engineer_features has stored the feature list of that DataFrame, and
\* insights only after detection has added final_anomaly to it
RunInOrder(ran, d, stored) ==
    /\ \A i, j \in DOMAIN ran : i < j => StageRank(ran[i]) < StageRank(ran[j])
    /\ \A i \in DOMAIN ran : ran[i] = "detect_anomalies_advanced" =>
          /\ \E j \in 1..(i - 1) : ran[j] = "engineer_features"
          /\ stored # {}
          /\ stored = (d.columns \ (DetectedColumns \cup PredictedColumns))
                          \ {"Day", "Room No", TotalCol}
    /\ \A i \in DOMAIN ran : ran[i] = "generate_insights" =>
          /\ \E j \in 1..(i - 1) : ran[j] = "detect_anomalies_advanced"
          /\ "final_anomaly" \in d.columns

\* C15: in every entry point that runs the pipeline (POST /api/analyze, main,
\* test_ml_engine, test_ml_accuracy) the stages are called in the order load or
\* construct, engineer_features, detect_anomalies_advanced, predict (where there is
\* one), generate_insights: detect_anomalies_advanced is not called before
\* engineer_features has stored the feature columns of that dataset, and
\* generate_insights not before detection has added final_anomaly.
C15_StagesInOrder ==
    /\ \A t \in DOMAIN threads :
          RunInOrder(threads[t].ran, threads[t].df, threads[t].stored)
    /\ call # NoCall =>
          /\ RunInOrder(call.ran, df, call.stored)
          /\ stage = "detect_anomalies_advanced" => analyzer.feature_columns = call.stored

\* C15 witness: test_ml_accuracy has run its fifth dataset through all five stages
\* on the one analyzer.
C15_Witness ==
    /\ call # NoCall /\ call.entry = "test_ml_accuracy"
    /\ call.case = Len(AccuracyCases) /\ stage = "end" /\ call.raised = None
    /\ call.ran = PipelineStages

(***************************************************************************)
(* One /api/analyze request on an analyzer just constructed.               *)
(***************************************************************************)
Outcome(status, raised, d, a) == [status |-> status, raised |-> raised, df |-> d, analyzer |-> a]

\* analyze_data, lines 36-84, run from EnergyConsumptionAnalyzer(): the status, the
\* place of the exception if any, the DataFrame reached and the analyzer left
FreshAnalyze(files, y, req) ==
    LET day == PyInt(req.day)
        r == LoadData(files, y, req.bedType.s, req.month.s, day.v)
        d1 == ReadCsv(files, r.path)
        d2 == Engineered(d1)
        a2 == [NewAnalyzer EXCEPT !.feature_columns = d2.columns \ {"Day", "Room No", TotalCol}]
        d3 == Detected(d2)
        a3 == AnalyzerAfterDetect(a2, FitOf(d2, a2.feature_columns), Opaque)
        d4 == Predicted(d3)
        a4 == AnalyzerAfterPredict(a3, FitOf(d3, a3.feature_columns \ DetectedColumns))
    IN  IF ~req.has_json THEN Outcome(500, "params", NoDf, NewAnalyzer)
        ELSE IF ~(Truthy(req.bedType) /\ Truthy(req.month) /\ Truthy(req.day))
             THEN Outcome(400, None, NoDf, NewAnalyzer)
        ELSE IF ~day.ok THEN Outcome(500, "int", NoDf, NewAnalyzer)
        ELSE IF r.kind # "DataFrame" THEN Outcome(500, "load_data", NoDf, NewAnalyzer)
        ELSE IF EngineerRaises(d1) THEN Outcome(500, "engineer_features", d1, NewAnalyzer)
        ELSE IF DetectRaises(d2, a2) THEN Outcome(500, "detect_anomalies_advanced", d2, a2)
        ELSE IF PredictRaises(d3, a3) THEN Outcome(500, "predict_energy_consumption", d3, a3)
        ELSE IF InsightsRaises(d4) THEN Outcome(500, "generate_insights", d4, a4)
        ELSE Outcome(200, None, d4, a4)

\* the analyzer holds what the run `fresh` fitted: the scaler and every estimator
\* the run fitted were fitted on the same columns and rows
SameFits(a, fresh) ==
    /\ fresh.feature_columns # {} => a.feature_columns = fresh.feature_columns
    /\ "iso_forest" \in DOMAIN fresh.models => a.scaler = fresh.scaler
    /\ \A k \in DOMAIN fresh.models : k \in DOMAIN a.models /\ a.models[k] = fresh.models[k]

\* C16: served one at a time by one analyzer, after any sequence of earlier analyze,
\* models/save and models/load requests, an /api/analyze request ends as it would
\* on a freshly constructed analyzer: the same status and exception, the same
\* DataFrame, and estimators fitted on the same data.
C16_SameAsFreshAnalyzer ==
    \A t \in DOMAIN threads :
        LET th == threads[t]
            fresh == FreshAnalyze(fs.folders, year, th.req)
        IN  (th.pc = "done" /\ th.endpoint = "analyze") =>
               /\ th.resp.status = fresh.status
               /\ th.raised = fresh.raised
               /\ th.df = fresh.df
               /\ SameFits(analyzer, fresh.analyzer)

\* C16 witness: an analysis has succeeded on an analyzer whose earlier requests
\* analysed a dataset with other feature columns and saved the models.
C16_Witness ==
    \E t \in DOMAIN threads :
        /\ threads[t].pc = "done" /\ threads[t].endpoint = "analyze"
        /\ threads[t].resp.status = 200
        /\ fs.models.saved
        /\ fs.models.feature_columns # {}
        /\ fs.models.feature_columns # analyzer.feature_columns

\* the request of thread t has just ended in the parameter check, in int(day) or in
\* load_data
FailedBeforeEngineering(t) ==
    /\ threads'[t] # threads[t]
    /\ threads'[t].endpoint = "analyze" /\ threads'[t].pc = "done"
    /\ \/ threads'[t].resp.status = 400
       \/ threads'[t].raised \in {"params", "int", "load_data"}

\* C17: a step of an /api/analyze request that ends it in the parameter check, in
\* int(day) or in load_data (invalid month, invalid day, missing file, missing
\* column) leaves the analyzer's feature_columns, scaler, models and
\* anomaly_thresholds as they were; so does every earlier step of that request.
C17_FailedLoadKeepsAnalyzer ==
    [][\A t \in DOMAIN threads :
          (FailedBeforeEngineering(t) \/ (threads'[t] # threads[t] /\ threads[t].pc = "load_data"))
              => analyzer' = analyzer]_vars

\* C17 witness: a request has failed in load_data on an analyzer that holds the
\* feature columns, scaler and models of an earlier analysis.
C17_Witness ==
    \E t \in DOMAIN threads :
        /\ threads[t].pc = "done" /\ threads[t].endpoint = "analyze"
        /\ threads[t].raised = "load_data"
        /\ analyzer.feature_columns # {}
        /\ DOMAIN analyzer.models = {"iso_forest", "svm", "dbscan", "random_forest",
                                     "linear_regression"}

\* C18: within one /api/analyze request, the feature column list that
\* detect_anomalies_advanced and predict_energy_consumption read from the shared
\* analyzer is the list that request's own engineer_features call stored, under
\* every interleaving with the other requests of the threaded server.
C18_ReadsOwnFeatureColumns ==
    [][\A t \in DOMAIN threads :
          (/\ threads[t].pc \in {"detect_anomalies_advanced", "predict_energy_consumption"}
           /\ threads'[t] # threads[t])
              => analyzer.feature_columns = threads[t].stored]_vars

\* the parameter is absent, an empty string or the number 0
Falsy(p) == p.t = "none" \/ (p.t = "str" /\ p.s = <<>>) \/ (p.t = "int" /\ p.n = 0)

MissingParameter(req) == Falsy(req.bedType) \/ Falsy(req.month) \/ Falsy(req.day)

\* the request of the thread was answered 400 and entered no stage
Rejected400(th) ==
    /\ th.pc = "done" /\ th.resp.status = 400 /\ th.resp.keys = {"error"}
    /\ th.ran = <<>> /\ th.df = NoDf

\* C19: POST /api/analyze with bedType, month or day missing or falsy (day = 0 and
\* empty strings included) is answered 400 'Missing required parameters', and no
\* pipeline stage, load_data onward, is executed for it.
C19_MissingParameter400 ==
    \A t \in DOMAIN threads :
        (threads[t].endpoint = "analyze" /\ MissingParameter(threads[t].req))
            => Rejected400(threads[t])

\* C19 as the code has it: so it is when the body is a JSON object; a body that is
\* not one (JSON null) fails in data.get with status 500, also before any stage.
C19_MissingParameter400InObject ==
    \A t \in DOMAIN threads :
        LET th == threads[t]
        IN  (th.endpoint = "analyze" /\ MissingParameter(th.req)) =>
               IF th.req.has_json THEN Rejected400(th)
               ELSE /\ th.pc = "done" /\ th.resp.status = 500 /\ th.raised = "params"
                    /\ th.ran = <<>> /\ th.df = NoDf

\* C19 witness: a request with day = 0 was answered 400 while another request was
\* in the pipeline.
C19_Witness ==
    \E t, u \in DOMAIN threads :
        /\ threads[t].endpoint = "analyze" /\ threads[t].req.has_json
        /\ threads[t].req.day = IntParam(0)
        /\ threads[t].resp.status = 400
        /\ threads[u].pc = "detect_anomalies_advanced"

AnomalyTypes == {"Normal", "High Consumption", "Low Consumption", "Unusual Pattern"}

\* C20: after detect_anomalies_advanced every row typed 'High Consumption', 'Low
\* Consumption' or 'Unusual Pattern' has final_anomaly = 1, every row with
\* final_anomaly = 0 is 'Normal', and no row has a type outside the four.
C20_TypedRowsAreAnomalies ==
    stage = "detected" =>
        \A i \in Rows :
            /\ df[i]["anomaly_type"] \in AnomalyTypes
            /\ df[i]["anomaly_type"] # "Normal" => df[i]["final_anomaly"] = 1
            /\ df[i]["final_anomaly"] = 0 => df[i]["anomaly_type"] = "Normal"

\* C20 witness: a consensus anomaly typed other than 'Normal' beside a room that
\* is no anomaly and is 'Normal'.
C20_Witness ==
    /\ stage = "detected"
    /\ \E j \in Rows : /\ df[j]["final_anomaly"] = 1
                       /\ df[j]["anomaly_type"] # "Normal"
    /\ \E i \in Rows : /\ df[i]["final_anomaly"] = 0
                       /\ df[i]["anomaly_type"] = "Normal"

\* C21: the labels are assigned in the order High Consumption, Low Consumption,
\* Unusual Pattern, a later assignment overwriting an earlier one: every
\* consensus-anomalous room whose usage_variance exceeds the 90th percentile of
\* usage_variance ends as 'Unusual Pattern', whatever its total-energy band.
C21_UnusualPatternWins ==
    stage = "detected" =>
        \A i \in Rows :
            (df[i]["final_anomaly"] = 1 /\ 10 * df[i]["usage_variance"] > VarianceQ90)
                => df[i]["anomaly_type"] = "Unusual Pattern"

\* C21 witness: an anomalous room above the 90th percentile of the totals and of
\* the variances, typed 'Unusual Pattern' and not 'High Consumption'.
C21_Witness ==
    /\ stage = "detected"
    /\ \E i \in Rows : /\ df[i]["final_anomaly"] = 1
                       /\ 10 * df[i]["usage_variance"] > VarianceQ90
                       /\ 10 * df[i][TotalCol] > TotalQ90
                       /\ df[i]["anomaly_type"] = "Unusual Pattern"

(***************************************************************************)
(* The stages as calls: the DataFrame object the caller passes and the     *)
(* object the stage assigns its columns to.                                *)
(***************************************************************************)
\* a stage that assigns its columns to the object it was passed
DfCopyAliased(obj) == obj

\* df = df.copy(): the stage's local name is bound to a new object
DfCopy(obj) == "copy"

\* The stage has assigned its columns to its local object and returns it: `df` is
\* the caller's object as it is after the call, call.passed as it was before.
StageReturns(name, result) ==
    /\ call' = [entry |-> name, passed |-> df, returned |-> result]
    /\ df' = IF DfCopy("passed") = "passed" THEN result ELSE df
    /\ stage' = "returned"

\* analyzer.engineer_features(df)
CallEngineerFeatures ==
    /\ stage = "loaded"
    /\ ~EngineerFeaturesRaises(df)
    /\ StageReturns("engineer_features", EngineerFeaturesDF(df))
    /\ analyzer' = [analyzer EXCEPT !.feature_columns = FeatureColumnsOf(EngineerFeaturesDF(df))]
    /\ UNCHANGED <<fs, year, threads>>

\* analyzer.detect_anomalies_advanced(df)
CallDetectAnomaliesAdvanced ==
    /\ stage = "engineered"
    /\ ~DetectAnomaliesRaises(df, analyzer)
    /\ \E lib \in LibOutputs(Len(df)) :
          StageReturns("detect_anomalies_advanced", DetectAnomaliesAdvancedDF(df, lib))
    /\ analyzer' = AnalyzerAfterDetect(analyzer, Column(df, TotalCol),
                                     IqrBounds(Column(df, TotalCol)))
    /\ UNCHANGED <<fs, year, threads>>

\* analyzer.predict_energy_consumption(df)
CallPredictEnergyConsumption ==
    /\ stage = "detected"
    /\ StageReturns("predict_energy_consumption", PredictEnergyConsumptionDF(df))
    /\ analyzer' = [analyzer EXCEPT !.models =
           [k \in (DOMAIN analyzer.models) \cup {"random_forest", "linear_regression"} |->
               IF k \in {"random_forest", "linear_regression"}
               THEN [fitted_on |-> Column(df, TotalCol)] ELSE analyzer.models[k]]]
    /\ UNCHANGED <<fs, year, threads>>

\* df = <the call>: the caller binds its name to the returned object
BindReturned ==
    /\ stage = "returned"
    /\ df' = call.returned
    /\ stage' = CASE call.entry = "engineer_features" -> "engineered"
                  [] call.entry = "detect_anomalies_advanced" -> "detected"
                  [] call.entry = "predict_energy_consumption" -> "predicted"
    /\ UNCHANGED <<analyzer, fs, year, call, threads>>

NextCalls ==
    \/ CallEngineerFeatures
    \/ CallDetectAnomaliesAdvanced
    \/ CallPredictEnergyConsumption
    \/ BindReturned

SpecCalls == InitPipeline /\ [][NextCalls]_vars

\* C22: engineer_features, detect_anomalies_advanced and predict_energy_consumption
\* work on a copy: the DataFrame the caller passed is as it was, and the returned
\* one has the same rows in the same order, every input column with its original
\* values, and new columns besides.
C22_StagesWorkOnACopy ==
    stage = "returned" =>
        /\ df = call.passed
        /\ Len(call.returned) = Len(call.passed)
        /\ \A i \in 1..Len(call.passed) :
              /\ \A c \in DOMAIN call.passed[i] :
                    c \in DOMAIN call.returned[i] /\ call.returned[i][c] = call.passed[i][c]
              /\ DOMAIN call.returned[i] # DOMAIN call.passed[i]

\* C22 witness: predict_energy_consumption has returned a DataFrame with the
\* prediction columns while the caller's still has none.
C22_Witness ==
    /\ stage = "returned" /\ call.entry = "predict_energy_consumption"
    /\ "rf_prediction" \in DOMAIN call.returned[1]
    /\ "rf_prediction" \notin DOMAIN df[1]
    /\ "final_anomaly" \in DOMAIN df[1]

(***************************************************************************)
(* generate_insights on detected DataFrames of any mix of anomalies.       *)
(***************************************************************************)
\* the rows of a frame short enough to draw freely
MaxInsightRows == 4

\* a detected row as generate_insights reads it: the ensemble score decides
\* final_anomaly and the confidence; a row below the consensus is 'Normal'
InsightRow(room, score, type) ==
    [c \in {"Room No", TotalCol, "final_anomaly", "anomaly_confidence", "anomaly_type"} |->
        CASE c = "Room No" -> room
          [] c = TotalCol -> 40 + score
          [] c = "final_anomaly" -> FinalAnomaly(score)
          [] c = "anomaly_confidence" -> AnomalyConfidence(score)
          [] c = "anomaly_type" -> IF FinalAnomaly(score) = 1 THEN type ELSE "Normal"]

\* score and label of a row
InsightRowKinds ==
    { <<0, "Normal">>, <<1, "Normal">>, <<2, "High Consumption">>, <<2, "Normal">>,
      <<3, "Unusual Pattern">>, <<4, "Low Consumption">>, <<5, "High Consumption">> }

\* frames of up to MaxInsightRows rows of any kind, and frames of 15 and of 20 rooms
\* whose first k rooms are anomalies
InsightFrames ==
    UNION { { [i \in 1..n |-> InsightRow(i, ks[i][1], ks[i][2])] : ks \in [1..n -> InsightRowKinds] }
            : n \in 1..MaxInsightRows }
    \cup { [i \in 1..n |-> IF i <= k THEN InsightRow(i, 2, "High Consumption")
                           ELSE InsightRow(i, 0, "Normal")] :
             n \in {NumRooms, 20}, k \in 0..5 }

InitInsights ==
    /\ df \in InsightFrames
    /\ stage = "predicted"
    /\ analyzer = NewAnalyzer
    /\ fs = NoFs /\ year = 0 /\ call = NoCall /\ threads = NoThreads

NextInsights == GenerateInsights

SpecInsights == InitInsights /\ [][NextInsights]_vars

\* the rows of the frame with final_anomaly = 1
AnomalousSet == {i \in 1..Len(df) : df[i]["final_anomaly"] = 1}

\* the row of the frame a record of top_anomalous_rooms is about
RowOfRoom(rec) == CHOOSE i \in 1..Len(df) : df[i]["Room No"] = rec["Room No"]

\* C23: the 'anomalies' section is non-empty if and only if a row has
\* final_anomaly = 1; then top_anomalous_rooms lists exactly min(3, anomaly_count)
\* rooms, each with final_anomaly = 1, none of lower anomaly_confidence than an
\* anomalous room left out, and the three type counts sum to at most anomaly_count.
C23_AnomaliesSection ==
    stage = "insights" =>
        LET a == call.insights.anomalies
            top == a.top_anomalous_rooms
            listed == {RowOfRoom(top[k]) : k \in DOMAIN top}
        IN  /\ DOMAIN a # {} <=> AnomalousSet # {}
            /\ DOMAIN a # {} =>
                  /\ Len(top) = IF Cardinality(AnomalousSet) < 3
                                THEN Cardinality(AnomalousSet) ELSE 3
                  /\ Cardinality(listed) = Len(top)
                  /\ listed \subseteq AnomalousSet
                  /\ \A k \in DOMAIN top : top[k] = TopRoomRecord(df[RowOfRoom(top[k])])
                  /\ \A i \in listed : \A j \in AnomalousSet \ listed :
                        df[i]["anomaly_confidence"].num >= df[j]["anomaly_confidence"].num
                  /\ a.high_consumption + a.low_consumption + a.unusual_pattern
                        <= Cardinality(AnomalousSet)

\* C23 witness: four anomalous rooms of differing confidence, one of them typed
\* 'Normal'; three are listed and the type counts sum to less than four.
C23_Witness ==
    /\ stage = "insights"
    /\ Cardinality(AnomalousSet) = 4
    /\ Len(call.insights.anomalies.top_anomalous_rooms) = 3
    /\ \E i, j \in AnomalousSet :
          df[i]["anomaly_confidence"].num > df[j]["anomaly_confidence"].num
    /\ call.insights.anomalies.high_consumption + call.insights.anomalies.low_consumption
          + call.insights.anomalies.unusual_pattern = 3

\* C24: generate_insights adds the recommendation 'High anomaly rate detected...' if
\* and only if more than 15 percent of the rows have final_anomaly = 1
\* (anomaly_count * 100 > 15 * total_rooms); at exactly 15 percent it is not added.
C24_HighAnomalyRateAbove15 ==
    stage = "insights" =>
        ((\E k \in DOMAIN call.insights.recommendations :
              call.insights.recommendations[k] = HighAnomalyRateMessage)
          <=> Cardinality(AnomalousSet) * 100 > 15 * Len(df))

\* C24 witness: 3 anomalies in 20 rooms, exactly 15 percent, and no recommendation.
C24_Witness ==
    /\ stage = "insights"
    /\ Len(df) = 20 /\ Cardinality(AnomalousSet) = 3
    /\ call.insights.recommendations = <<>>

\* C25: after the simple detector every room whose total is below the dataset mean
\* is 'Normal' in the Anomaly column, and each room's 'Anomaly Reason' is the highest
\* tier its total strictly exceeds: 'Faulty Equipment?' above 3 times the mean, else
\* 'Possible Overuse' above 2 times, else 'Unusual Spike' above 1.5 times, else
\* 'Normal'.
C25_ReasonIsHighestTier ==
    stage = "simple_detected" =>
        LET n == Len(df)
            S == SumSeq(Column(df, TotalCol))
        IN  \A i \in Rows :
                /\ n * df[i][TotalCol] < S => df[i]["Anomaly"] = "Normal"
                /\ df[i]["Anomaly Reason"] =
                      IF n * df[i][TotalCol] > 3 * S THEN "Faulty Equipment?"
                      ELSE IF n * df[i][TotalCol] > 2 * S THEN "Possible Overuse"
                      ELSE IF 2 * n * df[i][TotalCol] > 3 * S THEN "Unusual Spike"
                      ELSE "Normal"

\* C25 witness: a room above twice the mean given 'Possible Overuse', beside rooms
\* below the mean that are 'Normal'.
C25_Witness ==
    /\ stage = "simple_detected"
    /\ \E i \in Rows : /\ Len(df) * df[i][TotalCol] > 2 * SumSeq(Column(df, TotalCol))
                       /\ df[i]["Anomaly Reason"] = "Possible Overuse"
    /\ \E j \in Rows : /\ Len(df) * df[j][TotalCol] < SumSeq(Column(df, TotalCol))
                       /\ df[j]["Anomaly"] = "Normal"

\* the names load_models looks for
ModelNames == {"iso_forest", "svm", "dbscan", "random_forest", "linear_regression"}

\* C26: after save_models(p), load_models(p) on any analyzer makes its scaler,
\* anomaly_thresholds, feature_columns and models equal to the saved ones.  (With
\* one request in hand at a time, the analyzer of a state in which a models/load
\* request has just been answered is the analyzer load_models left.)
C26_LoadRestoresSaved ==
    \A t \in DOMAIN threads :
        (/\ threads[t].pc = "done" /\ threads[t].endpoint = "models/load"
         /\ threads[t].resp.status = 200 /\ fs.models.saved) =>
            /\ analyzer.scaler = fs.models.scaler
            /\ analyzer.anomaly_thresholds = fs.models.anomaly_thresholds
            /\ analyzer.feature_columns = fs.models.feature_columns
            /\ \A k \in ModelNames :
                  IF k \in DOMAIN fs.models.models
                  THEN /\ k \in DOMAIN analyzer.models
                       /\ analyzer.models[k] = fs.models.models[k]
                  ELSE k \notin DOMAIN analyzer.models

(***************************************************************************)
(* GET /api/available-data over a data directory spelled out name by name, *)
(* and load_data asked for what the listing shows.                          *)
(***************************************************************************)
BedroomData == <<"B", "e", "d", "r", "o", "o", "m", " ", "D", "a", "t", "a">>
\* the directories get_available_data passes over
SkippedDirs == {<<"v", "e", "n", "v">>, <<"_", "_", "p", "y", "c", "a", "c", "h", "e", "_", "_">>, <<"m", "o", "d", "e", "l", "s">>}

\* load_data: folder_name = f"{bed_type} Bedroom Data - {month_abbr}"
FolderName(bed, abbr) == bed \o <<" ">> \o BedroomData \o <<" ", "-", " ">> \o abbr

\* bed_folder.split()[0]: the first run of characters that are not blanks
FirstToken(t) ==
    LET start == MinOf({i \in 1..Len(t) : t[i] # " "})
        blanks == {i \in start..Len(t) : t[i] = " "}
    IN  SubSeq(t, start, IF blanks = {} THEN Len(t) ELSE MinOf(blanks) - 1)

\* an entry of a directory: its name, whether it is a directory, and for a bed
\* folder the names of the files in it
DirEntry(name, isdir, files) == [name |-> name, isdir |-> isdir, files |-> files]

\* the bed folders get_available_data looks into under a month directory
ScannedFolders(tree, month) ==
    {fo \in tree.folders : /\ fo.month = month /\ fo.isdir
                           /\ Find(fo.name, BedroomData, 1) # 0}

\* the files of a folder whose name gives a day
ListedFiles(fo) == {f \in fo.files : ListedDay(f).listed}

\* the days in the order os.listdir happened to give the files (here: descending)
RECURSIVE ListdirDays(_)
ListdirDays(names) ==
    IF names = {} THEN <<>>
    ELSE LET f == CHOOSE f \in names : \A g \in names : ListedDay(f).day >= ListedDay(g).day
         IN  <<ListedDay(f).day>> \o ListdirDays(names \ {f})

\* sorted(days), one day for each listed file
RECURSIVE SortedDays(_)
SortedDays(names) ==
    IF names = {} THEN <<>>
    ELSE LET f == CHOOSE f \in names : \A g \in names : ListedDay(f).day <= ListedDay(g).day
         IN  <<ListedDay(f).day>> \o SortedDays(names \ {f})

\* the keys of available_data: every directory of base_dir that is not passed over
ListedMonths(tree) == {e.name : e \in {e \in tree.base : e.isdir /\ e.name \notin SkippedDirs}}

\* what one scanned folder would put under available_data[month][bed_type]
\* (nothing for a folder with no listed file: "if days:")
FolderListing(tree) ==
    {[month |-> fo.month, bed |-> FirstToken(fo.name), days |-> SortedDays(ListedFiles(fo))] :
        fo \in {fo \in tree.folders : /\ fo.month \in ListedMonths(tree)
                                      /\ fo \in ScannedFolders(tree, fo.month)
                                      /\ ListedFiles(fo) # {}}}

\* available_data: of two folders of a month with the same bed type, the one
\* os.listdir gives last is kept; either order can happen
AvailableDataOf(tree) ==
    {L \in SUBSET FolderListing(tree) :
        \A e \in FolderListing(tree) :
            Cardinality({x \in L : x.month = e.month /\ x.bed = e.bed}) = 1}

\* load_data on the directory: ValueError from the validators, FileNotFoundError
\* when os.path.exists(file_path) is false, otherwise the file is read
LoadDataFromTree(tree, y, bed, month, day) ==
    LET vm == ValidateMonth(month)
        abbr == MonthAbbr(vm.month)
    IN  IF ~vm.ok THEN [kind |-> "ValueError", at |-> "validate_month"]
        ELSE IF ~ValidateDay(y, vm.month, day)
             THEN [kind |-> "ValueError", at |-> "validate_day"]
        ELSE IF ~(/\ \E e \in tree.base : e.isdir /\ e.name = vm.month
                  /\ \E fo \in tree.folders :
                        /\ fo.month = vm.month /\ fo.isdir
                        /\ fo.name = FolderName(bed, abbr)
                        /\ FileName(bed, abbr, day) \in fo.files)
             THEN [kind |-> "FileNotFoundError", at |-> "exists"]
        ELSE [kind |-> "read_csv", at |-> None]

\* the bed types, months and days of the modelled directories
TreeBeds == {<<"6">>, <<"2">>}
TreeMonths == {ValidMonths[1], ValidMonths[2]}
OtherAbbr(month) == IF month = ValidMonths[1] THEN MonthAbbr(ValidMonths[2]) ELSE MonthAbbr(ValidMonths[1])

\* names a bed folder can have: the one load_data builds, one without the month,
\* one with another month, one with two blanks, and a folder that holds no data
FolderNames(bed, month) ==
    {FolderName(bed, MonthAbbr(month)),
     bed \o <<" ">> \o BedroomData,
     FolderName(bed, OtherAbbr(month)),
     bed \o <<" ", " ">> \o BedroomData \o <<" ", "-", " ">> \o MonthAbbr(month),
     <<"p", "l", "o", "t", "s">>}

\* the file name of the convention with the day written with a leading zero
FileNamePadded(bed, abbr, day) ==
    abbr \o <<"_">> \o bed \o BedEnergyDay \o <<"0">> \o FormatInt(day) \o DotCsv

\* what a bed folder can hold
FileSets(bed, month) ==
    LET abbr == MonthAbbr(month) IN
    {{FileName(bed, abbr, 10), FileName(bed, abbr, 2), FileName(bed, abbr, 1)},
     {FileName(bed, abbr, 9), FileName(bed, abbr, 28)},
     {FileName(bed, abbr, 29)},
     {FileName(bed, abbr, 31)},
     {FileName(bed, abbr, 1), FileNamePadded(bed, abbr, 1)},
     {FileName(bed, abbr, 3), FileNameNoDayWord(bed, abbr, 4)},
     {<<"n", "o", "t", "e", "s", ".", "t", "x", "t">>, <<"d", "a", "y", "_", "x", ".", "c", "s", "v">>},
     {}}

\* base_dir: the month directory, the models directory and a plain file
TreeBase(month) ==
    {DirEntry(month, TRUE, {}), DirEntry(<<"m", "o", "d", "e", "l", "s">>, TRUE, {}),
     DirEntry(<<"a", "p", "p", ".", "l", "o", "g">>, FALSE, {})}

BedFolder(month, name, files) == [month |-> month, name |-> name, isdir |-> TRUE, files |-> files]

\* the modelled data directories: one bed folder in a month; two folders of one
\* bed type in a month; a month directory and a month that is a plain file
Trees ==
    {[base |-> TreeBase(month), folders |-> {BedFolder(month, name, files)}] :
        <<month, name, files>> \in
            UNION {UNION {{<<m, n, fi>> : n \in FolderNames(b, m), fi \in FileSets(b, m)} :
                          b \in TreeBeds} : m \in TreeMonths}}
    \cup {[base |-> TreeBase(m),
           folders |-> {BedFolder(m, FolderName(<<"6">>, MonthAbbr(m)),
                                  {FileName(<<"6">>, MonthAbbr(m), 1)}),
                        BedFolder(m, FolderName(<<"6">>, OtherAbbr(m)),
                                  {FileName(<<"6">>, MonthAbbr(m), 2),
                                   FileName(<<"6">>, MonthAbbr(m), 3)})}] : m \in TreeMonths}
    \cup {[base |-> {DirEntry(m, FALSE, {})},
           folders |-> {BedFolder(m, FolderName(<<"6">>, MonthAbbr(m)),
                                  {FileName(<<"6">>, MonthAbbr(m), 1)})}] : m \in TreeMonths}

InitListing ==
    /\ call = NoCall
    /\ year \in Years
    /\ fs \in Trees
    /\ analyzer = NewAnalyzer
    /\ df = <<>> /\ stage = "tree" /\ threads = NoThreads

\* GET /api/available-data
GetAvailableData ==
    /\ stage = "tree"
    /\ \E data \in AvailableDataOf(fs) :
          call' = [entry |-> "available-data", months |-> ListedMonths(fs),
                   available_data |-> data]
    /\ stage' = "listed"
    /\ UNCHANGED <<df, analyzer, fs, year, threads>>

\* load_data is asked for a bed type, month and day the listing shows
LoadListedDay ==
    /\ stage = "listed"
    /\ \E e \in call.available_data : \E i \in DOMAIN e.days :
          call' = [entry |-> "load_data", months |-> call.months,
                   available_data |-> call.available_data,
                   month |-> e.month, bed |-> e.bed, day |-> e.days[i],
                   loaded |-> LoadDataFromTree(fs, year, e.bed, e.month, e.days[i])]
    /\ stage' = "loaded"
    /\ UNCHANGED <<df, analyzer, fs, year, threads>>

NextListing == GetAvailableData \/ LoadListedDay

SpecListing == InitListing /\ [][NextListing]_vars

\* a day is listed only if the folder of a directory of base_dir holds a CSV file
\* whose name gives that day; each list ascends; no list is empty
ListingIsOfFiles ==
    stage \in {"listed", "loaded"} =>
        \A e \in call.available_data :
            /\ e.days # <<>>
            /\ \A i, j \in DOMAIN e.days : i < j => e.days[i] <= e.days[j]
            /\ \A i \in DOMAIN e.days :
                  \E fo \in fs.folders :
                      /\ fo.month = e.month /\ FirstToken(fo.name) = e.bed
                      /\ \E b \in fs.base : b.isdir /\ b.name = fo.month
                      /\ \E f \in fo.files :
                            /\ EndsWith(f, DotCsv)
                            /\ \E k \in 1..(Len(f) - Len(DayMarker)) :
                                  /\ SubSeq(f, k, k + Len(DayMarker) - 1) = DayMarker
                                  /\ \E d \in {FormatInt(e.days[i]), <<"0">> \o FormatInt(e.days[i])} :
                                        SubSeq(f, k + Len(DayMarker), Len(f)) = d \o DotCsv

\* every CSV file of a scanned folder is named by the convention for the folder's
\* bed type and the month of its directory, with a day of that month
CsvFollowConvention ==
    \A fo \in fs.folders :
        (fo.month \in ListedMonths(fs) /\ fo \in ScannedFolders(fs, fo.month)) =>
            \A f \in fo.files :
                EndsWith(f, DotCsv) =>
                    \E d \in 1..MaxDay :
                        /\ f = FileName(FirstToken(fo.name), MonthAbbr(fo.month), d)
                        /\ fo.month \in Range(ValidMonths) => ValidateDay(year, fo.month, d)

\* every scanned folder has the name load_data builds for its bed type and month
FoldersFollowConvention ==
    \A fo \in fs.folders :
        (fo.month \in ListedMonths(fs) /\ fo \in ScannedFolders(fs, fo.month)) =>
            fo.name = FolderName(FirstToken(fo.name), MonthAbbr(fo.month))

MaxMenus == 3

\* what the user types at the prompt
MenuInputs ==
    {<<"1">>, <<"2">>, <<"3">>, <<"4">>, <<"5">>, <<"6">>,
     <<" ", "6", " ">>, <<" ", "2">>, <<"7">>, <<>>}

\* str.strip() of a line of blanks and other characters
RECURSIVE StripBlanks(_)
StripBlanks(s) ==
    IF s = <<>> THEN s
    ELSE IF s[1] = " " THEN StripBlanks(Tail(s))
    ELSE IF s[Len(s)] = " " THEN StripBlanks(SubSeq(s, 1, Len(s) - 1))
    ELSE s

\* main ends on whatever it catches
MainExceptEnds(raised) == "ended"

\* the except clauses of main's loop: KeyboardInterrupt breaks, an Exception is
\* printed and the loop goes on
MainExcept(raised) == IF raised = "KeyboardInterrupt" THEN "ended" ELSE "show_menu"

\* run_ml_engine: ml_engine.main() returns, raises an Exception (ValueError for a
\* bed type or day that is not valid), or the user presses Ctrl+C; all three are
\* caught and the function returns
MlMainOutcomes == {"returned", "Exception", "KeyboardInterrupt"}
RunMlEngineOutcome(inner) == "returned"

\* test_ml_engine catches Exception; check_system_status catches nothing outside
\* its health check; show_documentation only prints
OptionOutcomes(choice) ==
    IF choice = <<"3">> THEN {"returned", "KeyboardInterrupt"}
    ELSE IF choice = <<"4">> THEN {"returned", "Exception", "KeyboardInterrupt"}
    ELSE {"returned"}

NewMain ==
    [menus |-> 0, deps |-> "None", data |-> "None", choice |-> <<>>, option |-> "None",
     raised |-> "None", end |-> "None", api_process |-> "None", terminated |-> FALSE,
     left_running |-> 0]

InitMenu ==
    /\ call = NewMain
    /\ stage = "check_dependencies"
    /\ year = 0 /\ fs = NoFs /\ analyzer = NewAnalyzer
    /\ df = <<>> /\ threads = NoThreads

Unused == <<df, analyzer, fs, year, threads>>

\* if not check_dependencies(): return
CheckDependencies ==
    /\ stage = "check_dependencies"
    /\ \E ok \in {"True", "False"} :
          /\ call' = [call EXCEPT !.deps = ok,
                                  !.end = IF ok = "True" THEN "None" ELSE "returned"]
          /\ stage' = IF ok = "True" THEN "check_data_files" ELSE "ended"
    /\ UNCHANGED Unused

\* if not check_data_files(): return   (iterdir can raise OSError)
CheckDataFiles ==
    /\ stage = "check_data_files"
    /\ \E ok \in {"True", "False", "OSError"} :
          /\ call' = [call EXCEPT !.data = ok,
                                  !.end = IF ok = "True" THEN "None"
                                          ELSE IF ok = "False" THEN "returned" ELSE "raised"]
          /\ stage' = IF ok = "True" THEN "show_menu" ELSE "ended"
    /\ UNCHANGED Unused

\* show_menu() at the top of the loop
ShowMenu ==
    /\ stage = "show_menu" /\ call.menus < MaxMenus
    /\ call' = [call EXCEPT !.menus = @ + 1, !.raised = "None", !.option = "None",
                            !.choice = <<>>]
    /\ stage' = "input"
    /\ UNCHANGED Unused

\* the step of main that handles an exception raised inside the try
Raise(c, exc) ==
    [c EXCEPT !.raised = exc,
              !.end = IF MainExcept(exc) = "ended" THEN exc ELSE "None"]

\* choice = input(...).strip(): a line, EOFError at the end of the input, or Ctrl+C
Input ==
    /\ stage = "input"
    /\ \/ \E line \in MenuInputs :
             /\ call' = [call EXCEPT !.choice = StripBlanks(line)]
             /\ stage' = "choice"
       \/ \E exc \in {"Exception", "KeyboardInterrupt"} :
             /\ call' = Raise(call, exc)
             /\ stage' = MainExcept(exc)
    /\ UNCHANGED Unused

\* choice == '1': run_ml_engine()
RunMlEngine ==
    /\ stage = "choice" /\ call.choice = <<"1">>
    /\ \E inner \in MlMainOutcomes :
          /\ RunMlEngineOutcome(inner) = "returned"
          /\ call' = [call EXCEPT !.option = "run_ml_engine"]
    /\ stage' = "show_menu"
    /\ UNCHANGED Unused

\* choice == '3', '4', '5': test_ml_engine(), check_system_status(), show_documentation()
RunOption ==
    /\ stage = "choice" /\ call.choice \in {<<"3">>, <<"4">>, <<"5">>}
    /\ \E out \in OptionOutcomes(call.choice) :
          LET name == IF call.choice = <<"3">> THEN "test_ml_engine"
                      ELSE IF call.choice = <<"4">> THEN "check_system_status"
                      ELSE "show_documentation"
              c == [call EXCEPT !.option = name]
          IN  IF out = "returned"
              THEN call' = c /\ stage' = "show_menu"
              ELSE call' = Raise(c, out) /\ stage' = MainExcept(out)
    /\ UNCHANGED Unused

\* choice == '6': break
ChoiceExit ==
    /\ stage = "choice" /\ call.choice = <<"6">>
    /\ call' = [call EXCEPT !.end = "choice 6"]
    /\ stage' = "ended"
    /\ UNCHANGED Unused

\* else: "Invalid choice"
InvalidChoice ==
    /\ stage = "choice"
    /\ call.choice \notin {<<"1">>, <<"2">>, <<"3">>, <<"4">>, <<"5">>, <<"6">>}
    /\ call' = [call EXCEPT !.option = "invalid"]
    /\ stage' = "show_menu"
    /\ UNCHANGED Unused

\* run_full_system returns to the loop of main.  A server process that is still
\* running stays behind; api_process is a local name that is gone.
FullSystemReturns(c) ==
    [c EXCEPT !.option = "run_full_system returned"]

\* the server processes that are running and that nothing refers to any more
LeftRunning(c) == c.left_running + (IF c.api_process = "running" THEN 1 ELSE 0)

\* choice == '2': run_full_system() starts the server: subprocess.Popen (OSError is
\* caught by the outer except), then time.sleep(3), during which the server may
\* stop by itself (the port is taken) and Ctrl+C is caught by nothing but main
FullSystemPopen ==
    /\ stage = "choice" /\ call.choice = <<"2">>
    /\ LET c == [call EXCEPT !.option = "run_full_system", !.terminated = FALSE,
                             !.left_running = LeftRunning(call),
                             !.api_process = "None"]
       IN  \/ /\ call' = FullSystemReturns(c)
              /\ stage' = "show_menu"
           \/ \E p \in {"running", "exited"} :
                 /\ call' = [c EXCEPT !.api_process = p]
                 /\ stage' = "health"
           \/ /\ call' = Raise([c EXCEPT !.api_process = "running"], "KeyboardInterrupt")
              /\ stage' = MainExcept("KeyboardInterrupt")
    /\ UNCHANGED Unused

\* the health check: status 200 goes on; any other status, and anything raised
\* (the bare except), prints and returns
FullSystemHealth ==
    /\ stage = "health"
    /\ \E answer \in IF call.api_process = "running" THEN {200, 500, 0} ELSE {0} :
          IF answer = 200
          THEN call' = call /\ stage' = "browser"
          ELSE call' = FullSystemReturns(call) /\ stage' = "show_menu"
    /\ UNCHANGED Unused

\* webbrowser.open(API_URL): an Exception is caught by the outer except, which
\* prints and lets the function return
FullSystemBrowser ==
    /\ stage = "browser"
    /\ \/ call' = call /\ stage' = "wait"
       \/ call' = FullSystemReturns(call) /\ stage' = "show_menu"
    /\ UNCHANGED Unused

\* api_process.wait(): returns when the server ends by itself; on Ctrl+C the
\* function goes on to stop the server
FullSystemWait ==
    /\ stage = "wait"
    /\ \/ /\ call' = FullSystemReturns([call EXCEPT !.api_process = "waited"])
          /\ stage' = "show_menu"
       \/ call' = call /\ stage' = "stopping"
    /\ UNCHANGED Unused

\* api_process.terminate(); api_process.wait()
FullSystemStop ==
    /\ stage = "stopping"
    /\ call' = FullSystemReturns([call EXCEPT !.terminated = TRUE, !.api_process = "waited"])
    /\ stage' = "show_menu"
    /\ UNCHANGED Unused

NextMenu ==
    \/ CheckDependencies
    \/ CheckDataFiles
    \/ ShowMenu
    \/ Input
    \/ RunMlEngine
    \/ RunOption
    \/ ChoiceExit
    \/ InvalidChoice
    \/ FullSystemPopen
    \/ FullSystemHealth
    \/ FullSystemBrowser
    \/ FullSystemWait
    \/ FullSystemStop

SpecMenu == InitMenu /\ [][NextMenu]_vars

\* C28: the menu is shown only after check_dependencies and check_data_files both
\* returned True, and main returns without showing it when one of them returned
\* False; once in the loop, the loop ends only on choice '6' or KeyboardInterrupt;
\* an invalid choice and an Exception raised by an option lead back to the menu.
C28_MenuLoop ==
    /\ [](call.menus > 0 => (call.deps = "True" /\ call.data = "True"))
    /\ [](("False" \in {call.deps, call.data}) =>
             (stage = "ended" /\ call.end = "returned" /\ call.menus = 0))
    /\ [][(stage # "ended" /\ stage' = "ended" /\ call.menus > 0) =>
             \/ call'.choice = <<"6">> /\ call'.raised = "None"
             \/ call'.raised = "KeyboardInterrupt"]_vars
    /\ [][(stage = "choice" /\ call.choice \notin {<<"1">>, <<"2">>, <<"3">>, <<"4">>, <<"5">>, <<"6">>})
             => stage' = "show_menu"]_vars
    /\ [][(call.raised = "None" /\ call'.raised = "Exception") => stage' = "show_menu"]_vars

\* C28 witness: the menu is due for the second time after check_system_status
\* raised an Exception.
C28_Witness ==
    /\ stage = "show_menu" /\ call.menus = 1
    /\ call.option = "check_system_status" /\ call.raised = "Exception"
    /\ call.deps = "True" /\ call.data = "True"

\* C29: whenever run_full_system has returned, on every path, the server process
\* it started is not left running.
C29_ServerStoppedOnReturn ==
    call.option = "run_full_system returned" => call.api_process # "running"

====
